# Verification of the prediction-market server

TLA+ models of the back end in `src/app/src` (NestJS, TypeORM, Postgres, ethers/web3):
the program that creates prediction markets as contracts on a chain, follows them by
their events, closes and resolves them, and keeps their ledger in a database. The models
are translated from the code; TLC checks them on small instances, TLAPS proves the most
important results for every value of the constants.

Paths below are relative to `src/app/src`. `PROJECT.json` has the exact lines of every
definition (`map`), the runs, the mutants, the hazards and the theorems.

- [1 The system](#1-the-system)
- [2 Modules and what they correspond to](#2-modules-and-what-they-correspond-to)
- [3 Runs, bounds and what they show](#3-runs-bounds-and-what-they-show)
- [4 Fairness](#4-fairness)
- [5 Proofs](#5-proofs)
- [6 Disagreements between the code and what is said of it](#6-disagreements)
- [7 What is not modelled, and abstractions](#7-what-is-not-modelled-and-abstractions)
- [8 Plan](#8-plan)

How to run: `tlc -config <cfg> <module>.tla` for a run, where the module is the part of the
cfg's name before the underscore, but for two: `Indexer_poll.cfg` is a configuration of
`IndexerDelivery`, `MarketLifecycle.cfg` one of `LifecycleStages`. `tlapm <module>.tla`
checks the proofs of a module, those whose name ends in `Proofs` and `SumTheorems`.

## 1 The system

One Node process, one database, one operator wallet, an Ethereum node. There is no lock,
no database transaction around more than one query of the modelled code, and no queue:
concurrency is between awaits of asynchronous functions, and it is unrestricted. A cron job
starts every ten minutes whether or not its last run has ended; API requests and event
handlers run whenever they come.

| Component | State it keeps | Operations | Talks to |
|---|---|---|---|
| **Blockchain indexer** `blockchain-indexer/blockchain-indexer.service.ts` | per chain: offset in memory, offset in the chain row, running setup, WebSocket, timers | catch-up by block ranges, subscription, event handlers, retry, admin restart | node (HTTP, WebSocket), chain table, market service (one call per log) |
| **Market lifecycle** `prediction-market/prediction-market.service.ts`, `prediction-market-contracts/...service.ts` | row of `prediction_market`, stage of the contract, payouts on the conditional-tokens contract | close (cron, forced), resolve, change fee/liquidity/other columns, redeem, remove, save of event handlers | contracts, database, indexer |
| **Ledger** same service | amounts invested, truenesses, participations, redeem history, monetized marks, transaction log | handlers of trade, resolution, redemption; request "I have seen the result" | indexer (deliveries), database, contracts (balances) |
| **Deployment** same services | reservations (`base_prediction_market`, `base_conditional_token`), markets, contracts, operator's collateral and allowance | create at once, reserve, update, remove, cron deployment, cleanup after failure | contracts, database |
| **Contract calls and funds** `blockchain-core/*.service.ts` | nonces, gas of users, wallets, faucet times, balances, logs of what was received | `call` with nonce retry and gas refill, faucet, charges, conversion, creation and connection of wallets | node, wallet table |
| **Pricing and outcomes** `prediction-market-contracts/helpers/lmsr-market-helper.service.ts`, `trade` and `createAllCollections` of the market service | inventory as recorded, approvals; rows of outcomes shared by markets | payment to amount, limits, approvals; index sets, icons of outcomes | contracts, ledger, storage |
| **Fees** `withdrawFees` | fees in the market maker, logs | collection by the creator and by the resolution handler | contracts |
| **Price cache** `cacheOngoingMarketPrices` | an entry per market with a time to live | fills by trades, deployment and a periodic job; deletion at closing; readers | contracts, lifecycle |
| **Users and authentication** `user/*` | rows of users, session cookies, settings | register, log in, patch, guard, routes | database |
| **Notifications** `notification/web-push-notification.service.ts` and the cron job | settings, notification rows | notices of resolutions, prizes, deposits, news; reminders | messaging service, email |
| **Categories and files** `file-upload`, `minio`, category routes | tree of categories, objects in the storage | add, update, delete, upload of icons | storage, database |
| **Queries and statistics** | none of their own | pages, order, pools, statistics, totals, pinning | database |
| **Web frontend** `src/ng-front`, **demo** `src/blockchain` | none the server relies on | - | API |

How they interact. The *indexer* is the only source of events: for every trade, resolution
and redemption on the chain it calls a handler of the market service, which loads rows,
computes on copies, and saves the copies (*ledger*; the trade and resolution handlers save
the market row too, which is where the ledger meets the *lifecycle*). The *cron job*
`processPredictionMarkets` first closes the overdue markets (*lifecycle*) and then deploys
the due reservations (*deployment*). API requests do the rest. The chain is shared: a
creator, the operator and the oracle act on it through the server, traders on their own.

What is hard about it, and what makes each part correct:

* **Indexer.** Failures of the node at any await; a block mined at any time; pushes that
  overlap the catch-up; admin restarts that orphan running code and overlap each other;
  failing queries of the chain table; crashes between handling and saving the offset. Correct
  when the saved offset never passes over an unhandled log, a catch-up misses nothing in its
  range, there is one listener and one retry chain, and each log is handled in the end.
* **Lifecycle.** Chain and row change in separate steps that may fail separately; copies of
  the row are several transactions old when they are saved; contracts are paused, changed
  and resumed by interleaving runs. Correct when the row never claims more than the chain
  holds, things happen in order (close, report, redeem), nothing stays paused without
  somebody to resume it, and overdue markets are closed.
* **Ledger.** Read-modify-write of shared rows without locks, parallel saves that fail one
  by one, deliveries repeated after a restart, events that arrive after the market closed.
  Correct when amounts are sums of real trades, what is logged is recorded, the outcomes
  are judged together, and the marks on participations mean what they say.
* **Deployment.** Check-then-act on the question; overlapping cron runs; a process killed
  between saving a market and deleting its reservation; one request's cleanup deleting
  another's rows; one pot of collateral and one allowance. Correct when no reservation
  vanishes without a market, each contract has its rows, each reservation is started once,
  and what is due is started.

* **Services around them.** Several steps with something in between everywhere: a price that
  moves between quote and transaction, a nonce that is taken between reading and sending, a
  setting that changes between reading and telling, a row that changes between look and
  save. Correct when a trade keeps to the limit the user named, a transaction is sent once,
  money given is money logged, what is asked for reaches its handler, and reports agree.

The hazards, each at its line with the properties that would notice, are in `PROJECT.json`.

## 2 Modules and what they correspond to

Conventions. An action is what the code does between two awaits; where a function stands
is the `at` of its task. An await that calls a contract succeeds, is refused, fails without
effect, or has its effect and loses the answer. A crash sets every task back. Operators
called `...Fault` are plausible mistakes of the operator they stand before; no specification
uses them: replacing the one by the other must violate a property (the mutants).
`faults`, `used`, `updates` and the `Max...` constants are budgets of the environment, not
state of the code. History variables (`handled`, `fees`, `ignored`, `overlapped`, `raced`, `again`) are written
by the model and read by properties only, except `again`, which opens the way to repeated
deliveries.

### Indexer.tla - one chain and its indexer

A *network* is the object that one run of `onModuleInit` makes of the chain's row and puts
into `networks`: the first at the start of the process, one more for each admin restart. Code
of an old network goes on running after a restart, so most variables are one per network (`Net`).

| Model | Code |
|---|---|
| `head`, `logs`, `Mine` | the chain; at most one log of each kind per block is told apart |
| `mem`, `dbOffset` | `network.chain.blockProcessOffset`, `chain.block_process_offset`; 0 is null |
| `phase`, `current`, `slot` | what has become of a network: `onModuleInit` awaits its row, it is live, released, or was never made; the one in `networks`; the one whose connection is in `websocketNetworks` |
| `ChainsRead`, `ChainsFail`, `Ready` | `onModuleInit` around its await of `findChains` |
| `setup` | a run of `setupWebSocketListener`: `getBlockNumber` (head), `getLogs` of each of three kinds (fetch), their handlers (process), `updateChainBlockOffset` (save), the synchronous end (subscribe) |
| `GotHead`, `GotLogs`, `HandleBatched`, `BatchDone`, `SaveOffset`, `Subscribe` | the stretches of `checkoutChainLogs` and of its caller |
| `WhenPanicked`, `LogsFail`, `HeadFails` | its `catch` clauses |
| `Throws`, `SaveFails`, `Rejects` | what no `catch` of a setup stops: the use of a network that was released, and a failed save of the offset (line 377) |
| `conn`, `wire`, `tasks` | the socket, the events pushed by the node, the handlers working on them (`TaskHandles`, `TaskSaves`, `TaskSaveFails`) |
| `timers`, `RetriesOnClose`, `RetryFires` | `ongoingTimeouts`, `schedule`, `prepareToRetryRpcConnection` |
| `CloseSlot` | `releaseWebsocketProvider`; its awaits are one step with what comes before them |
| `Restart` | `restartIndexer`: releases the network in `networks` and runs `onModuleInit`, which awaits the chains |
| `doomed`, `DoomedExit`, `Crash`, `Boot` | the exit of the process on an unhandled rejection; a crash; the start of the process |

A setup that `onModuleInit` awaits (at boot, at a restart) has its rejections swallowed (lines
58-63): after a failed save there is then neither a socket nor a retry, and the chain is served
no more until somebody restarts the indexer. One that a timer runs has nobody to catch them,
and the process exits. A second restart during the await of the first finds `networks` empty and
releases nothing: both make a network of the chain, and each gets a subscription. The variable
`overlapped` tells that this has happened since the process started.

### MarketLifecycle.tla - one market

`row` is the row, `stage`/`reported`/`fees`/`traded` the chain, `task` the runs, each with
the copy of the row it works on (`ent`) and the columns its save has found to differ
(`diff`): TypeORM's `save` is a SELECT and an UPDATE of the differing columns, with
anything in between (`SelectForSave`, `UpdateOfSave`). Runs start with `CronFinalizes`,
`ForceCloses`, `ManuallyResolves`, `UpdatesFee`, `UpdatesOther`, `ChangesLiquidity`,
`Redeems`, `TradeLogged`, `ResolutionLogged`; `SoftRemoves` is one step; `Close`, `Report`,
`Pause`, `Change`, `Resume`, `RedeemCalled` are the contract calls. `UpdatesOther` is an
update without a fee: `updatePredictionMarketData` compares `undefined` with the fee and
calls `changeFee` with NaN between pause and resume, which throws, so that nothing is saved.

### Ledger.tla - what is written for the events of one market

The chain part (`Trades`, `ContractCloses`, `RowCloses`, `Reports`, `RedeemsOnChain`)
produces events; `Deliver` starts the handler of one, with a copy of the tokens
(`TradeRun`, `ResolveRun`, `RedeemRun`), or drops it when the market is closed
(`Dropped`). What a handler has still to write is the set `todo` of its run: the saves that
the code runs in `Promise.all` are unordered (`SelectTokens`/`UpdateTokens`, `SaveMarket`,
`InsertParticipation`, `InsertHistory`), then `LogTransaction`. `Monetize` and the
request of `SeesResult`/`Check` are the two paths that mark participations. `LoadFails`
and `QueryFails` are failing queries; `StartsOver` is a restart or crash after which the
indexer may deliver a log again (which `Indexer` shows to happen, never without a fault:
`OnceWithoutFaults` for a poller).

The column `is_monetized` of a participation is NOT NULL and has no default
(`participation.entity.ts:105-107`), and the handler does not set it: its INSERT throws, every
time. The constant `MarkDefaults` tells what the model takes for possible. `{FALSE}` is the code
as it is; with `TRUE` the insert may also find the default that the documentation of the column
names. `ledger` is checked with both at once, so that what it shows is true of the code
as it stands and of a database in which somebody has added the default; what it says about
participations is about those that exist, which in the code as it stands are none. The same
holds of `Reports`, whose rows are participations, and of the fill of `PriceCache` after a
trade, which the code does only if that Promise.all succeeds.

### Deployment.tla - questions, reservations, markets

`base` are the reservations (with `outcomes`: are the rows of `base_conditional_token`
there?), `markets` the rows of `prediction_market`, `contracts` the market makers on the
chain, `balance`/`allowance` the operator's collateral in units of an initial liquidity.
`Creates` is `createNewMarket` up to its first save, then `Reserve`, `ReserveOutcomes` or
the deployment, and `Cleanup` in its `catch`. `CronStarts` loads what is due;
`NextReservation` takes one of it. `deployMarket` is `Prepare`, `Funds`, `Deposit`,
`Approve`, `CreateMaker`/`MakerRefused`, `SaveMarket`, `SaveOutcomes`, `Deletes`.
`Updates`, `DropOutcomes`, `AddOutcomes`, `SaveReservation` are
`updateReservedPredictionMarketData`, and `Removes` the soft removal. The save of a
reservation that is gone inserts it again, without outcomes; `Prepare` then throws at
every later cron run. A question carries the time when it is hashed
(`formatQuestionText`), so the chain never refuses a second contract for it.

### What is promised: LogDelivery.tla and MarketStages.tla

`LogDelivery` is an at-least-once consumer in 60 lines: the chain grows, a log is delivered,
an offset is stored that passes over no log that was not; and no log waits for ever.
`IndexerDelivery` maps `Indexer` to it (`delivered` are the logs with `handled > 0`, the
offset is that of the chain row) and states `ImplementsDelivery == D!Spec`. That holds for an
indexer that polls; with sockets it does not, which is `indexer_gap`.

`MarketStages` is what a market promises to those who look at it: the contract goes open
(with pauses), closed, reported, one way; the row may lag and may be taken back by a
stale write, but tells of no stage the contract did not reach and of no fee it did not have.
`LifecycleStages` maps `MarketLifecycle` to it; `ImplementsStages == S!Spec`. It is the one
property that says at once: closed before reported, fees and resolution never ahead of the
chain, no transition skipped by any interleaving.

### The services: twelve modules and one that runs them

| Module | Code | What interleaves |
|---|---|---|
| `Trading` | `trade`, `calculateLmsrPurchasableTokens`, `buyOutcomeToken`, `sellOutcomeToken` | two requests, trades of others, handlers of trade events that overlap, fail and overwrite one another, the closing, approvals being mined |
| `Calls` | `BlockchainHelperService.call` | three calls of the operator and of a user: gas estimate, gift of gas, nonce, retry, receipt, a lost answer |
| `Wallets` | `getWallet`, `createWallet`, `manuallyConnectWallet`, the faucet, `transferFromOperator` | two requests, failed steps, restarts, the clock |
| `Fees` | `collectMarketFees`, the end of `setMarketResolutionData`, `withdrawFees` | two collections, trades, the closing, a fault |
| `PriceCache` | `cacheOngoingMarketPrices`, `closeMarket`, `getMarketOutcomesPossibility` | fills that overlap, the steps of the closing, expiry, readers |
| `Notifications` | the `push...` functions, `notifyUsersInterestedInMarketResolution` | a round with letters still to send, changes of settings, redemptions |
| `Reminders` | `informUsersAboutSoonClosingMarkets` | late and left-out checks, an early closing |
| `Accounts` | `AuthService`, `UserService`, `UserController` | registrations, logins and patches of two clients, a crash |
| `Api` | the controllers' routes in their order, `AuthGuard` | one request after the other |
| `Categories` | `addNewCategory`, `updateCategoryData`, `deleteCategory`, the save after an upload of an icon | look and save of two requests, deletion, a crash |
| `Outcomes` | `getPredictionOutcomes`, `createAllCollections`, `updateOutcomeIcon` | two markets that are created at once and share rows, uploads |
| `Reports` | `findMarkets`, `findUserTrades`, pools, statistics, totals, `pinMarket`, `softRemovePredictionMarket` | rows come, markets close, resolve and are removed, in part or with the removal undone by a stale save, between any two reports |

They share no variable, in the code as in the models. `Services` is their sum: a behaviour is
one of one service, chosen by `part` at the start, and the others stand still. One run then
checks them all at the cost of the sum of their states, not of the product. The
properties of `Services` name those of the modules, and are explained where those are.

Some details that the properties depend on, as the code has them:

* `Trading`. A payment becomes an amount with the *recorded* inventory, its cost is then
  asked of the *chain*, and the limit of a purchase is the lower of cost and payment. The
  record is what handlers of trade events make of it (`Deliver`, `SaveTokens`, `SaveMarket`):
  each saves amounts of the copy it loaded, so an overlap loses a trade and the record is off
  from then on. `drift` tells that the record was not the chain's when a request calculated
  with it, or that the price has moved since. The
  limit of a sale is positive and binds the market maker to nothing, which is why only
  `SalePaysUnlessDrift` can be said. `approve` replaces the allowance of a concurrent
  purchase; `setApprovalForAll` is not awaited.
* `Calls`. `isANonceError` knows some wordings and not others (`known`); the retry starts
  from the gas estimate again, so that a call that does not wait may be given gas twice.
* `Wallets`. An address is compared as it is written, while an account has two spellings;
  at equality of balance and amount the refill is of zero, and fails.
* `Accounts`. `hashSalt` joins salt and hash, whose bytes are written as text, by a dot
  (`config/config.service.ts:25`); a hash with a dot among them never matches again, one
  with a NUL is refused by the database. PATCH stores a password as it came.
* `Categories`. `parentId` is read the wrong way round (`prediction-market.service.ts:351`).
  An empty name skips the look for another category of that name (line 341). Description and
  icon are texts that POST and PATCH store as they come; nothing is claimed of them.
* `Reports`. Removal writes `deleted_at` of the market and of its outcome tokens in two
  queries at once. The trades stay; a user's totals drop those of removed tokens (inner joins,
  lines 2331-2332), the statistics count them, as a TODO at line 1002 knows.
* `Outcomes`. The nested loops of `createAllCollections` are translated as they are.

Theorems are in modules of their own. `IndexerProofs` (with its refinement),
`MarketLifecycleProofs` (with its own), `LedgerProofs` and `DeploymentProofs` are about the core
modules; `ReportsProofs` about the lists and sums; `FundsProofs` (calls, fees, wallets) and
`ServicesProofs` (trading and the others) about `Services`; `SumTheorems` has what they need
of sums over finite sets.

## 3 Runs, bounds and what they show

| Run | Question | Bounds, and why they are enough |
|---|---|---|
| `indexer_poll` | A node that refuses WebSockets: does the indexer implement an at-least-once consumer, passes it over no log, and handles none twice without a fault? | Ranges of 2 blocks (`BlockRange = 1` is inclusive), 3 blocks, one log, one crash, one restart at any await, one failing call of the node. Several ranges, a range cut off in the middle, and a block mined during the catch-up all occur. No query of the chain table fails: after one nothing is handled any more, and the liveness would be false. 143,738 states. |
| `indexer_push` | With sockets, pushes and drops: does a catch-up cover its range, is there one retry chain? | 2 blocks, one log, one crash, two restarts, which may overlap, one failed query of the chain table, one lost connection. Offsets start at null, so the first start is included. The one thing it does not reach is a retry that is due while no network is there (`RetryFires` with `current = 0`), which takes three restarts; the proofs cover it. 2,269,158 states. |
| `indexer_gap` *(violation)* | Is nothing lost between catch-up and subscription? | No fault; 3 blocks. |
| `lifecycle` | Does the server implement the stages of a market? Row against chain; pausing; stale saves | One cron run and two symmetric requests or handlers, two fees, one fault. Three writers are enough for a stale copy, a closer and a third who acts on what the first wrote. 708,039 states. |
| `lifecycle_live` | Is an overdue market closed in the end? | One cron run, one other, two dates, two faults; no symmetry, which liveness would not allow. |
| `lifecycle_reopen` *(violation)* | Are payouts reported only of rows that are closed? | No fault. |
| `ledger` | Races of handlers and requests: amounts, records, truenesses, marks | Two handlers, two outcomes, a user and an account without wallet, one redemption, inserts with and without the default. Two trades, or one trade and one fault, which is a failing query, a crash or a repeated delivery. 2,690,544 states. |
| `ledger_lost` *(violation)* | Is the amount invested the sum of the trades? | Two trades, no fault. |
| `ledger_unrecorded` *(violation)* | Has each trade that was handled its participation? | One trade, one handler, no fault, the column as the entity has it. |
| `deploy` | Creation, reservation, cron deployment, update, removal, cleanup, shared funds | A cron run and a request that overlap, two questions, two reservations, one update, one fault. The cron run handles two reservations in a row, fails at the first, and races with a creation for one allowance. |
| `deploy_twice` *(violation)* | Has a question at most one market? | Two cron runs, one reservation, no fault. |
| `services` | Eighteen questions to the services, see below | Two overlapping requests, two users, two accounts; the bounds of each service are in `Services`. 909,817 states. |

Bounds of `services`. *Trading*: an amount of 2, a payment of 9 with a fee of a quarter and
a price of 6, two tokens of each outcome to start with and
funds of 20, which pay for two tokens at once or for one and one: an allowance can be overwritten
by a smaller one, and a sale can be overtaken by another. Two handlers of trade events. *Calls*: three calls, so
that a retry can meet a third taker of its number; one lost answer. *Wallets*: charges below,
at and above the reserve of 3 (2, 3, 4), seven native tokens, which are enough for one refill
and not for two; a delay of 2 ticks; two requests, one fault. *Fees*: three fees, four collections
of which two overlap, one fault. *PriceCache*: three fills of which two overlap. *Notifications*:
two rounds, changes or redemptions, and four settings to start from for each of two users.
*Reminders*: an interval of 3 and a reminder 5 ahead, so that the two are not aligned, ten units
of time, every due date. *Accounts*: two clients, a username that looks like an email, two
patches, which may overlap. *Api*: every route with each of two ids. *Categories*: two names, two ids. *Outcomes*: two
markets of two outcomes with the same titles in any order, two uploads. *Reports*: two
markets, two trades, one pin, one removal, all statuses and page sizes, lists in order of
creation with and without priorities.

Each property of a passing run has a mutant of the code under which TLC finds it violated.
The passing runs between them take every action of every module.

What the passing runs show, in short:

* `NothingSkipped`, `CatchUpCovers`: the catch-up is correct as such: bounds of ranges,
  failures in the middle of a range, restarts and crashes lose nothing it was responsible
  for. `ImplementsDelivery`: polling alone, driven by refused sockets, is an at-least-once
  consumer, liveness included. `OnceWithoutFaults`: repeats need a fault.
  `SingleRetryChain`: however closes, retries and restarts interleave, a network has at most
  one setup, connection or retry; only the network in `networks` is served, unless restarts
  overlapped; and it always is, unless a query of the chain table failed.
* `ImplementsStages`, `ClosedOnlyAfterChain`: the row never claims what the chain does not
  have, even through stale copies, and the contract goes its stages in order.
  `PausedHasOwner`: without a lost call or crash nothing stays paused.
  `ClosersNeverUndo`: of all the savers of stale copies only the trade handler and the fee
  update can reopen or un-resolve a row. `EventuallyClosed`: overdue markets are closed.
* `NothingInvented`: `amount_invested` is at any time the sum of some of the delivered
  trades - updates are lost, never made up, never counted twice for one delivery.
  `InvestedIsSumWithoutOverlap`: it is the full sum of the trades that handlers took up if
  these did not overlap, whether or not an insert beside it throws. `JudgedTogether`: the
  outcomes of a market are judged all or none, also after a stale trade handler has written
  its copy back, and nothing is marked as monetized before payouts are reported. `LoggedMeansRecorded`: the transaction log is
  written last, so that a failed save or a throwing insert leaves no entry. `MonetizedHasNoClaim`: marks are for those with nothing to claim.
* `NoReservationLost`: no failure, crash or cleanup makes a reservation vanish before its
  market and outcomes are saved. `NoOrphanContract`: without faults each contract has its
  rows, although allowance and balance are shared. `QuestionUniqueWithoutOverlap`: of all live
  reservations and all markets, those with one question come of one accepted request, and
  `StartedOnceWithoutOverlap`: a reservation gets one contract, both while runs do not overlap
  (the code has no more to offer: see `deploy_twice`). `EventuallyStarted`: what is due is started.
* Trading: `BuyWithinPayment` (a purchase never costs more than its payment, through lag and
  drift), `SalePaysUnlessDrift`, `FailsForAReason` (whatever the server sends is accepted but
  when the record was off or the price has moved, requests of the user overlapped, the market
  closed, the payment buys less than a token, the user owns too little, or the approval is not
  mined). Calls: `CallsLandOnce` (one transaction per call, truth told to
  the caller, one retry is enough for two, one gift of gas). Wallets and fees:
  `FaucetOncePerDelay`, `ReplacedOnlyByForce`, `ChargeAloneSucceeds`, `ReceivedIsLogged`
  (each amount paid by faucet, charge or collection is logged once, and the resolution
  leaves no fee behind).
* `FinalOnceClosed`: who loads a closed market sees final prices, if no fill overlapped the
  closing. `OnlyWanted`: nobody who switched web push off is told anything by a round that
  began later. `AnnouncedOnce`: one reminder, on time, off the border of two windows.
* `OwnerLogsIn`, `PatchChangesItsField`, `UniqueUnlessRaced`: what registration, patches and
  the look-then-save checks do guarantee, with their exceptions spelled out.
  `RightHandler`: each request reaches the route it means, but for the two shadowed ones.
  `PairsFollowBits`: which outcomes a collection has. `IconsFollowUploads`: no upload changes the
  icon that two tokens show. `ReportsAgree`: pages make up the lists and sums agree, in total
  for removed markets too, and for a user but for the trades of removed outcomes.

Some of these are restricted on purpose. `NothingSkipped` needs an offset that is set: with
a null offset the indexer starts at the last block by design. `NothingSkipped` is checked
for a poller because `indexer_gap` shows it false with sockets. `MonetizedHasNoClaim`
leaves out a request that finds the market resolved while its tokens are not judged:
resolution saves both in parallel, and the request then takes a winner for a loser.
`PairsFollowBits` is about two outcomes, as it is false for three (section 6). An exception
that a property of a service names (`drift`, `overlap`, `raced`, `late`, `lapse`, `forced`,
`delayed`) is a history variable that is set in the steps where it begins, and each of
them is needed at these bounds: without it TLC finds a behaviour against the property.

## 4 Fairness

* `Indexer!Fairness`: awaits of a setup end (the RPC client has timeouts), a refused socket
  emits `close`, a timer fires, an unhandled rejection ends the process, which its
  supervisor starts again. No query of the chain table fails in the run: a failed save of the
  offset ends the chain of retries for good, as `NeverAbandoned` says. Nothing is assumed of mining, pushes, faults, or of the node
  accepting a connection; with a node that accepts, handled logs depend on its pushes, so
  liveness is claimed for the polling configuration.
* `MarketLifecycle!Fairness`, `Deployment!Fairness`: the cron schedule (`@Cron` every ten
  minutes) keeps starting runs, and awaits end. Nothing is assumed of the clock, of users
  or of faults, which are bounded in number: the liveness properties say that the code
  recovers once faults stop. Weak fairness is enough everywhere: nothing that is waited
  for is switched on and off by others for ever.
  At this commit no module imports `ScheduleModule.forRoot()`, without which Nest registers no
  `@Cron` method. The fairness, and every run that the cron job starts in `MarketLifecycle`,
  `Deployment` and `Reminders`, stand for a server in which the schedule is on; as the
  commit is, nothing starts those jobs and only requests close and deploy, and nobody is reminded.
* `Ledger` has no liveness: a delivery whose load fails is never repeated by the code.
* `Services` states none: its requests end when the node and the database answer, and
  nothing in them waits for another or is tried until it succeeds.

## 5 Proofs

For all values of the constants that satisfy the assumptions, for any number of runs,
requests, blocks, logs and faults. The assumptions, named in the modules: bounds are naturals;
for the indexer the first offset is at most one past the first head; for a market the first
fee is a fee; for the ledger there are traders, users are traders, sizes are positive; for
deployment there are questions and reservations to make of them; for trading a token costs at
least one unit, dearer with each one sold. For the services, users and
requests are arbitrary sets, the amounts, fees and times are those of `Services`. Theorems in
which requests are counted or summed over say `IsFiniteSet(Requests)`. One says
`Cardinality(Requests) <= 2`: a gift of three units of gas lasts for two other calls of the
user, so that for more calls than three one gift is not enough.

**Indexer** (`IndexerProofs`).
`TypeCorrect` is by one step per action. `OneRetryChain` is from `ChainInv`: setups, connections
and retries exclude each other, since the step that ends one begins the next; only the network
in `networks` can be released, and only restarts that overlap take one out of `networks` without
releasing it; while they do not, a live connection is the one in `websocketNetworks`, which
is why the release closes the right one. `CatchUpIsComplete` and `OffsetStaysWithinChain` follow from
`CoverInv`, which for all networks adds `Mined` and `InChain` to the two. `CatchUpCovers` alone is
not inductive: when a block is mined one must know that it is beyond the range of each running
catch-up (`to <= latest <= head`, in `InChain`), and when an offset is saved that it is at
most one past the head. The `...Shape` lemmas say what each step of a setup leaves alone.
`PollerSkipsNothing` is `NothingSkipped` for `IsPoller` (no sockets, an offset that is set),
from `PollInv`: there are no pushes (`Silent`), and what the offsets in memory, the saved offset and
the start of any running catch-up have passed over is handled (`OffsetsCovered`, `StartsCovered`),
also where catch-ups of several networks save their offsets over each other's. With sockets the
statement is false.
`NoRepetition` is `OnceWithoutFaults`, from `OnceInv`: while nothing has failed, restarted or
crashed there is one network (`FirstOnly`), what was handled is behind the catch-up under way
(`FetchedOnce`) or before the offset from which the next one starts (`BehindOffset`), and a pushed
log is on the wire, at one handler or handled, and only while its connection is open
(`PushedOnce`).

**Market lifecycle** (`MarketLifecycleProofs`). `TypeCorrect`; then `SafeInv` of three
parts: `RowInv` (the row against the chain), `TaskInv` for every run (its copy is no more
closed, resolved or priced than the chain allows, and what it is about to do is
justified), and `CloserInv` (while a run that closed the contract is saving, nobody else
knows). From it `ClosedMeansClosed`, `CloseBeforeReport`, `RedeemAfterReport`,
`RowFeeIsAChainFee`, and, with a case split over the savers, `ClosersDoNotUndo`, a theorem
about steps. `CloseBeforeReport`, `RedeemAfterReport` and `RowFeeIsAChainFee`, like
`OffsetStaysWithinChain` above, are no properties of a run any more: what they say is part of
the two refinements, which the runs do check. `PausedMarketIsOwned` is an invariant of its own. The copies are the reason
for the strengthening: a run's copy may be saved arbitrarily later, so that whatever
is true of the row must be true of all copies, and stay true while the chain moves on.

**Refinement.** `LifecycleImplementsStages` (`MarketLifecycleProofs`): `Spec =>
ImplementsStages`. `SafeInv` does most of it: what the row tells after a step is true of the
chain, so every step that leaves the chain alone is a `Write` (`StepOfRow`); the other lemmas
take the steps that move the stage, report or change the fee.
`PollerImplementsDelivery` (`IndexerProofs`): `IsPoller /\ Spec => D!Safety`, from
`PollInv` and `CoverInv`: a block mined is a `Grow`, a handler that ends a `Deliver`, a saved
offset an `Acknowledge`, everything else a stutter.

**Ledger** (`LedgerProofs`). `TypeInv` (types, that what is known has happened, and which
queries each kind of run can have under way) comes first, and each property has an invariant
of its own beside it:
`LoggedMeansRecorded` from what a run has recorded of what it has no longer to do, unless a
query of it failed; `JudgedTogether` from `JudgedInv`: in the rows and in every copy all
truenesses are set or none, and the columns an UPDATE is about to write are, for the
truenesses, those of all outcomes or of none - this is why a stale copy can take a judgement
back and never half of it. `MonetizedHasNoClaim` is about steps, from `ClaimInv`: a request
that is to mark its user's participations has found nothing to claim, or tokens that nobody
has judged; nobody trades once payouts are reported, so who holds nothing will not.
`NothingInvented` from `BackedInv`: for every row and every copy there is a set of
delivered trades whose sum it shows.
`InvestedIsSumWithoutOverlap` from `SumInv`: one run at most holds the rows, and what they show
with what it is still to add is the sum of the trades that handlers took up. None of the
theorems says that a participation exists: the assumption on `MarkDefaults` is that it is a
set of truth values, so all hold where every insert throws, where none does, and in between.

**Sums** (`SumTheorems`). A sum over a finite set is a fold that the library defines with CHOOSE over
functions. That it exists and is unique is an induction over finite sets, which is out of
the prover's reach with the library's theorem; the lemmas get there by the smallest subset
on which the statement fails (`MinimalSubset`). `SumAdds`, `SumSame`, `SumRenames`,
`SumChanges` and `SumIgnoresZeros` are what the proofs of the ledger and of the services cite.

**Deployment** (`DeploymentProofs`). One invariant, `DeploymentInv`, of six parts: `TypeOK`;
`TaskInv`, which functions a run at each of its steps can be in; `LostInv`, the market that a
run about to save outcomes has saved, and the complete one that a run about to delete the
reservation leaves behind; `UniqueInv`, `StartedInv` and `OrphanInv`, each under the condition of its
property (no overlap, no fault, or both), saying what a run has found out about questions (`UniqueInv`: every reservation and every market
carries the request it came of, and no two accepted requests asked one question), which reservations have a contract or a run that will make one, and which run still owes the
rows of a contract. `NoContractIsOrphaned` pairs contracts with complete rows one to one.

**Lists and sums** (`ReportsProofs`). `PagesMakeUp` and `PoolsAgree` hold of any
rows of the right types (`RowsKeepTheirTypes`), so `ListsAndSumsAgree` of every behaviour.
They assume `ConstantsOK`: finitely many users, markets and payments, two markets at least (a
pinned one is put above others), and `Nobody` no user. Markets, trades, pages, pins and removals
are any number, and the two halves of a removal may fail or be undone apart.
*Pages*: the query's order, by priority where asked and then by creation, is a strict total one
(`BeforeOrders`), so each market of a status has a number of its own in the list
(`Places`, `ListsAreComplete`); that the first n pages, one behind the other,
are the first n * take rows is an induction over n; it goes by the set of numbers of which it
holds, whose least exception there is none of (`AllNaturals`, `AllSequences`). Selecting the
rows of a page by result, and then joining the pages, is joining first (`Filter` of a
concatenation). Nothing is claimed of orders with ties (section 7).
*Sums*: the trades are split by the market, or by the user and the market
(`SumByClass`); a class without trades sums to zero; a user's trades are those of the totals and
those of removed outcomes (`WhatIsMissing`).

**Services** (`FundsProofs`, `ServicesProofs`). A step of `Services` is a step of one service, and leaves the
variables of the others alone: for each service there is a lemma that says so, an invariant,
and the proof that the service's own steps keep it.
*Trading*: `TradingInv` says of each request what it read of prices, collateral and
allowance and what can have changed it since. Of the recorded inventory nothing is
assumed: handlers may leave any numbers there. What was calculated with a record that equals the
chain holds of the chain until somebody trades, and where it does not, `drift` says so. From it
`PurchasesKeepToThePayment` (which needs no record at all: the limit is what was named),
`SalesBringInThePayment`, and `FailuresHaveReasons`, which is about steps.
*Calls*: `RetriesAreSafe` for any number of calls (a number is used once, whoever takes it);
the gift of gas as said above.
*Wallets, fees*: `WhatIsReceivedIsLogged` is one equation of sums (received = logged + about to
be logged + lost with a failed request) that every step keeps; `FaucetKeepsItsDelay`,
`LoneChargesSucceed`, `AddressesAreReplacedByForce`.
*Accounts, categories*: `OwnersLogIn`, `PatchesChangeTheirField`, `UniqueWithoutRaces`: what a
request found when it looked is still true if none overlaps.
*Outcomes*: `UploadsAreFollowed`, and `PairsHaveTheirBits`, for which the nested loops of
`createAllCollections` are unfolded for two outcomes.
*Prices, notices, reminders*: `FinalPricesAreShown`, `OnlyWantedNoticesAreSent`,
`MarketsAreAnnouncedOnce`.
*Lists and sums*: `ReportsAlwaysAgree` takes `ListsAndSumsAgree` of `ReportsProofs` for the rows
of `Services`.
*Routes*: `RequestsReachTheirRoutes`, for any ids that are no words of a route (`IdsAreNoWords`:
in the code ids are numbers). In the place of a parameter such an id fits whatever the
parameter's own text would fit (`WhoTakes`), so whether an earlier route takes the requests of a later
one is a question about the table alone (`Hides`, `NoneIsHidden`).

The proofs changed the models in five places. The cases of `Trading!Tokens` and of a quote
overlapped, and CASE takes any of those that apply: they are disjoint now.
The search for the amount that a payment buys ends at the payment, and that of a sale at the
depth of the market, instead of at a bound chosen for the run. And what was assumed of
constants is what the proofs use: at least one reservation, a trader, positive prices. `Reports`
sorts and filters by definitions of its own (`Rank`, `Filter`) rather than by the library's
SetToSortSeq and SelectSeq, about which there are no theorems to cite; that the list is complete
and in order is part of the proof of `PagesMakeUp`. The ids that requests
to the api carry are a constant of `Services`, no longer two texts.

Only model-checked:
* liveness (that of `ImplementsDelivery`, `EventuallyClosed`, `EventuallyStarted`), as it needs
  ENABLED;
* naturally, that the five runs of section 6 end in a violation.

## 6 Disagreements

Five runs expect a violation. Each checks what the repository itself says against what the
code does, without any fault of the environment; `PROJECT.json` quotes the lines.

1. `indexer_gap`: "Ensures all logs before this are processed" - a block mined between
   `getBlockNumber` and the open socket is neither caught up with nor pushed, and the next
   pushed event moves the saved offset past it.
2. `lifecycle_reopen`: payouts are reported of a market whose row is open: the trade handler
   saves the whole market it loaded before the closing.
3. `ledger_lost`: "Sum of all investments made on the outcome" - two trades handled at once
   add to copies of one row.
4. `ledger_unrecorded`: "In case some account has done trading directly in blockchain", and
   `isMonetized` with "default: false" - each trade is to have a participation, and the mark to
   be false at first; the column has no default, so that no participation is ever inserted.
5. `deploy_twice`: "This question has been asked previously!" - overlapping cron runs start
   the same reservation twice.

Met while modelling, translated as the code has it, without a run of their own:

* `slice(skip, take)` at `prediction-market.service.ts:850`: pages of markets sorted by
  participants take `take` for the index of the end, while
  `core/dtos/pagination-options.dto.ts:8,16` calls it the number of items. Lists in that order
  are not modelled.
* `softRemovePredictionMarket` leaves the participations (lines 992-1003, with a TODO):
  `getUserTotalTrades` drops them and the statistics count them. A trade handler or an update that
  loaded the market before saves it without `deleted_at`, which undoes the removal
  (`Reports!SaveStale`).
* No module imports `ScheduleModule.forRoot()`, so that the `@Cron` jobs are not registered
  (section 4).
* A failed save of the offset during the start of the indexer (`blockchain-indexer.service.ts:377`)
  leaves the chain without a listener and without a retry, while line 58 catches and logs it.
* "indexSetDecimal= 2 is the decimal value of bit-array 010" (`outcome-collection.entity.ts:38`):
  for three outcomes or more the loops of `createAllCollections`
  (`prediction-market.service.ts:689`) do not fill the collections in that order, and leave
  some empty. `Outcomes!CollectionsFollowBits` states it for all; it fails for three.
* PATCH `user/fcm-token` and PATCH `user/notification-setting` are declared after PATCH
  `user/:id`, which takes their requests (`Api!Shadowed`).
* The order by priority (`get-markets.dto.ts:63`) is left out of a list sorted by participants.
* A new parent of a category is cleared, none is looked up
  (`prediction-market.service.ts:351`); `unpinMarket` never saves, as every update without
  a fee; `getPopularCategoryId` (line 2591) is NaN for large ids of users.

## 7 What is not modelled, and abstractions

* Several chains run the same indexer beside each other (`onModuleInit` maps over them, and a
  failure at one does not stop the others): one is modelled. Several markets share
  nothing in the lifecycle and the ledger but the operator: one is modelled there;
  `Deployment` has several because they share funds, cleanup and the question check.
* Outside of `Calls` a contract call is one step with the outcomes named in section 2; `Calls`
  is how it is sent. The properties of `Calls` are what makes one step a fair account of it.
* Amounts: signed sizes of trades; collateral in units of one initial liquidity; no prices.
  In `Trading` a convex
  cost takes the place of the logarithms (positive prices that rise with what was sold; a
  sale for more than all the market is worth is refused), tokens are whole, and the errors of doubles are not modelled. Dates are a few ticks. A question is a model value; case-insensitive comparison
  (`ILike`, in which `%` and `_` are wildcards) is equality.
* Left out because equal keys come in any order of the database: lists by participants (the
  comparator at lines 844-848 returns 0 for equal numbers, over a query without an order) and by
  the columns of lines 792-799, which have no second key. Lists of `Reports` are in order of
  creation; no two rows are created at once.
* `Api`: the routes of the indexer's controller (its restart is an action of `Indexer`) and of
  the application root are not in the table; they share no path with those that are.
* `Categories`: description and icon, texts that are stored as they come, and wildcards of `ILike`.
* Loading a row with its relations is one step, also where the code uses two queries in
  parallel. Resolution has one winner with all of the payout. In `Deployment` deployed
  markets are not removed (`MarketLifecycle` and `Reports` have the removal), and the outcomes of a market and their collections are saved in one step.
* The contracts are external: what the models say of them is what the code's use implies.
* The fixed-product market maker is in the repository and throws "not implemented" where it
  would be used; it has no model. Search by text, filters that compare one column, wording of
  messages, devices of notifications, contents of files, balances read for display and keys
  of wallets are left out. Configuration, migrations and diagnostics act at start-up or
  describe the schema; their effect (unique indexes, nullable columns, ON DELETE) is in the
  modules of the tables. The Angular front end and the Truffle demo keep no state the
  server relies on.
* The services do not interact with each other or with the four core modules in the models;
  where they meet in the code, the module has what it needs of the other (`Trading` has
  deliveries and the closing, `PriceCache` the steps of the closing, `Fees` trades and the
  resolution), and no more.

## 8 Plan

Done: the four core modules, their abstract specifications with both refinements checked and
proved, the twelve services; every safety property of a passing run is proved.

1. Composition: the deliveries of `LogDelivery` as the deliveries a `Ledger` assumes.
2. Shorter proofs about the services: the steps of a request that keep the others' part of an
   invariant are alike in several services.
