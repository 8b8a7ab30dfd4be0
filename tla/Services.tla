------------------------------- MODULE Services -------------------------------
(***************************************************************************)
(* The services around the life cycle, the indexer, the ledger and the      *)
(* deployment of a market, for TLC: each behaviour is one of one service,   *)
(* chosen at the start, while the others stay as they were. They do not     *)
(* share state in the code either; what they have in common is the instance *)
(* of requests and users, and this run.                                    *)
(***************************************************************************)
EXTENDS Integers, TLC

CONSTANTS
    Requests,   \* API requests that may overlap
    Users,      \* users of the server
    Nobody,     \* the user of a trade made directly on the chain
    TextIds,    \* ids in requests, of users and of other resources
    Addresses,  \* accounts of the chain
    MaxCalls,   \* bound: requests to the wallet service
    MaxPatches  \* bound: requests to change a user

(* Requests and users are interchangeable; only safety is checked.          *)
Symmetry == Permutations(Requests) \union Permutations(Users)

VARIABLES part,
    (* Trading *)
    open, inventory, collateral, allowance, held, approved, closedAt, invested, unrecorded,
    handler, sent, req,
    (* Calls *)
    transactions, gas, gifts, call, lostAnswers,
    (* Wallets *)
    wallets, logged, reserve, native, received, times, walletReq, clock, grants, lapse, lost,
    forced, begun, faults,
    (* PriceCache *)
    chainTrades, closing, cache, fill, reader, fills, late,
    (* Notifications *)
    switches, winning, round, pushed, stored, mailed, changed, rounds,
    (* Reminders *)
    minute, due, closed, ran, delayed, told,
    (* Accounts *)
    users, settings, session, userCall, raced, patched, patches,
    (* Api *)
    cookie, asked, path, reached, status,
    (* Categories *)
    categories, categoryCall, overlapped,
    (* Outcomes *)
    outcomes, tokens, collections, outcomeIcons, marketCall,
    (* Reports *)
    trades, closedMarkets, resolvedMarkets, truth, priority, pins, removed, dropped,
    (* Fees *)
    trading, fees, operator, feeLogs, feeRun, earned, feeRuns, feeFaults, missed

T == INSTANCE Trading WITH Handlers <- Requests, Amounts <- {2}, Payments <- {9}, FeePart <- 4,
        Slope <- 6, Funds <- 20, Stake <- 2
K == INSTANCE Calls WITH CallIds <- Requests \union {Nobody}, Users <- {"user"}, Multiplier <- 3,
        MaxFaults <- 1, sent <- transactions, faults <- lostAnswers
W == INSTANCE Wallets WITH Accounts <- Addresses, Amounts <- {2, 3, 4}, Reserve <- 3, Native <- 7,
        Delay <- 2, MaxRequests <- MaxCalls, MaxClock <- 2, MaxFaults <- 1, req <- walletReq
P == INSTANCE PriceCache WITH Fills <- Requests, Readers <- {Nobody}, MaxTrades <- 2,
        MaxFills <- 3, trades <- chainTrades, begun <- fills
N == INSTANCE Notifications WITH MaxRounds <- 2, MaxHeld <- 1, settings <- switches,
        held <- winning, sent <- pushed
R == INSTANCE Reminders WITH Interval <- 3, Ahead <- 5, MaxClock <- 10, MaxDelay <- 2,
        clock <- minute
A == INSTANCE Accounts WITH Clients <- Requests, Names <- {"ann", "bob@x"},
        Emails <- {"ann@x", "bob@x"}, Passwords <- {"secret"}, MaxUsers <- 2, call <- userCall
H == INSTANCE Api WITH Users <- TextIds, session <- cookie
C == INSTANCE Categories WITH Names <- {"art", "war"}, MaxCategories <- 2,
        call <- categoryCall, raced <- overlapped
O == INSTANCE Outcomes WITH Markets <- Requests, Sizes <- {2}, Titles <- {"yes", "no"},
        Files <- {"f1", "f2"}, stored <- outcomeIcons, call <- marketCall
S == INSTANCE Reports WITH Markets <- 1 .. 2, Amounts <- {1}, MaxTrades <- 2, MaxPins <- 1,
        MaxRemoved <- 1, closed <- closedMarkets, resolved <- resolvedMarkets
F == INSTANCE Fees WITH Runs <- Requests, MaxFees <- 3, MaxRuns <- 4, MaxFaults <- 1,
        open <- trading, logged <- feeLogs, run <- feeRun, begun <- feeRuns,
        faults <- feeFaults

tradingVars == <<open, inventory, collateral, allowance, held, approved, closedAt,
                 invested, unrecorded, handler, sent, req>>
callsVars == <<transactions, gas, gifts, call, lostAnswers>>
walletsVars == <<wallets, logged, reserve, native, received, times, walletReq, clock,
                 grants, lapse, lost, forced, begun, faults>>
priceCacheVars == <<chainTrades, closing, cache, fill, reader, fills, late>>
notificationsVars == <<switches, winning, round, pushed, stored, mailed, changed,
                       rounds>>
remindersVars == <<minute, due, closed, ran, delayed, told>>
accountsVars == <<users, settings, session, userCall, raced, patched, patches>>
apiVars == <<cookie, asked, path, reached, status>>
categoriesVars == <<categories, categoryCall, overlapped>>
outcomesVars == <<outcomes, tokens, collections, outcomeIcons, marketCall>>
reportsVars == <<trades, closedMarkets, resolvedMarkets, truth, priority, pins, removed, dropped>>
feesVars == <<trading, fees, operator, feeLogs, feeRun, earned, feeRuns, feeFaults, missed>>
vars == <<part, tradingVars, callsVars, walletsVars, priceCacheVars, notificationsVars, remindersVars,
          accountsVars, apiVars, categoriesVars, outcomesVars, reportsVars, feesVars>>

ASSUME TradingAssumption == T!ConstantsOK

Parts == {"trading", "calls", "wallets", "prices", "notices", "reminders", "accounts", "api",
          "categories", "outcomes", "reports", "fees"}

Init ==
    /\ part \in Parts
    /\ T!Init /\ K!Init /\ W!Init /\ P!Init /\ N!Init /\ R!Init /\ A!Init /\ H!Init /\ C!Init /\ O!Init
    /\ S!Init /\ F!Init
    /\ part # "trading" => \A u \in Users : ~approved[u]
    /\ part # "notices" => \A u \in Users : switches[u] = N!Switches /\ winning[u] = 0
    /\ part # "reminders" => due = 5

(* The part p takes a step that leaves the variables of the others alone.    *)
Others(p) ==
    /\ part = p /\ UNCHANGED part
    /\ IF p = "trading" THEN TRUE ELSE UNCHANGED tradingVars
    /\ IF p = "calls" THEN TRUE ELSE UNCHANGED callsVars
    /\ IF p = "wallets" THEN TRUE ELSE UNCHANGED walletsVars
    /\ IF p = "prices" THEN TRUE ELSE UNCHANGED priceCacheVars
    /\ IF p = "notices" THEN TRUE ELSE UNCHANGED notificationsVars
    /\ IF p = "reminders" THEN TRUE ELSE UNCHANGED remindersVars
    /\ IF p = "accounts" THEN TRUE ELSE UNCHANGED accountsVars
    /\ IF p = "api" THEN TRUE ELSE UNCHANGED apiVars
    /\ IF p = "categories" THEN TRUE ELSE UNCHANGED categoriesVars
    /\ IF p = "outcomes" THEN TRUE ELSE UNCHANGED outcomesVars
    /\ IF p = "reports" THEN TRUE ELSE UNCHANGED reportsVars
    /\ IF p = "fees" THEN TRUE ELSE UNCHANGED feesVars

Next ==
    \/ Others("trading") /\ T!Next
    \/ Others("calls") /\ K!Next
    \/ Others("wallets") /\ W!Next
    \/ Others("prices") /\ P!Next
    \/ Others("notices") /\ N!Next
    \/ Others("reminders") /\ R!Next
    \/ Others("accounts") /\ A!Next
    \/ Others("api") /\ H!Next
    \/ Others("categories") /\ C!Next
    \/ Others("outcomes") /\ O!Next
    \/ Others("reports") /\ S!Next
    \/ Others("fees") /\ F!Next

Spec == Init /\ [][Next]_vars

-----------------------------------------------------------------------------
(* Properties. Each is stated, and explained, where the service is; what is  *)
(* expensive to evaluate is left out where another service runs.            *)

(* A purchase for a payment never costs more than it, though the inventory   *)
(* lags and the price moves between trade()'s steps.                        *)
BuyWithinPayment == T!BuyWithinPayment

(* A sale for a payment brings it in, unless the price moved since          *)
(* calculatePurchasableTokens.                                             *)
SalePaysUnlessDrift == T!SalePaysUnlessDrift

(* The market maker refuses what trade() sends it for known reasons only.    *)
FailsForAReason == T!FailsForAReason

(* A transaction is sent once though calls are retried, two calls at once    *)
(* both get through, and one that waits is given gas once.                  *)
CallsLandOnce == K!LandsOnce /\ K!RetrySuffices /\ K!GivenOnce

(* The faucet keeps its delay to a user whose requests do not overlap.       *)
FaucetOncePerDelay == W!FaucetOncePerDelay

(* What the faucet, a charge and the collection of a market's fees transfer  *)
(* is logged once, and the resolution leaves no fees behind.                *)
ReceivedIsLogged == W!ReceivedIsLogged /\ F!FeesAreLogged /\ F!NothingLeft

(* Only manuallyConnectWallet by force replaces an address.               *)
ReplacedOnlyByForce == W!ReplacedOnlyByForce

(* A lone transferFromOperator fails only for want of funds.              *)
ChargeAloneSucceeds == W!ChargeAloneSucceeds

(* A closed market is shown with its final prices.                          *)
FinalOnceClosed == P!FinalOnceClosed

(* Who has switched web push off gets no notice.                            *)
OnlyWanted == N!OnlyWanted

(* A market is announced once as closing soon.                              *)
AnnouncedOnce == R!AnnouncedOnce

(* Who registers can log in, whatever others register and patch.            *)
OwnerLogsIn == part = "accounts" => A!OwnerLogsIn

(* PATCH user/:id changes its one field, unless two overlap.                 *)
PatchChangesItsField == A!PatchChangesItsField

(* Each request reaches the handler of its route.                           *)
RightHandler == part = "api" => H!RightHandler

(* What the code looks for before it saves a row, because no index of the    *)
(* table makes it unique, stays unique as long as requests do not overlap:   *)
(* emails of users, names of categories (but for an empty one, which the     *)
(* code does not look for), accounts of wallets.                            *)
UniqueUnlessRaced ==
    /\ A!OneAccountPerEmail
    /\ C!NamesDiffer
    /\ W!AccountsDiffer

(* The collections of markets of two outcomes follow their index sets.       *)
PairsFollowBits == part = "outcomes" => O!PairsFollowBits

(* No upload changes the icon that two tokens show, though markets share     *)
(* outcome rows. A market made later may still find the new row by its title.*)
IconsFollowUploads == O!IconsAreOwn

(* The pages of lists make them up, and the statistics of markets, users    *)
(* and the platform, each computed by its own queries, agree, but for the    *)
(* trades of removed markets, which some count.                            *)
ReportsAgree == part = "reports" => S!PagesMakeUpLists /\ S!PoolsAddUp

=============================================================================
