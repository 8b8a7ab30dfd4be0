------------------------------- MODULE Ledger -------------------------------
(***************************************************************************)
(* What the database keeps of the trades, the resolution and the           *)
(* redemptions of one market: the amounts invested and the truenesses of   *)
(* the outcome tokens, the participations, the redeem history and the      *)
(* transaction log; and the concurrent runs that write them: the handlers  *)
(* of the events the indexer delivers, some of them twice, and the         *)
(* requests of users who have seen a result.                               *)
(*                                                                         *)
(* Handlers work on copies of rows, and save them as in MarketLifecycle: a  *)
(* SELECT finds the columns that differ, an UPDATE writes them. The saves   *)
(* of one handler run in parallel and may fail one by one.                 *)
(*                                                                         *)
(* The entity of a participation gives is_monetized no default, and no      *)
(* handler sets it: its INSERT throws, unless somebody has given the column *)
(* the default that its documentation names. MarkDefaults = {FALSE} is the  *)
(* code as it stands; with TRUE the default may be there when a row comes.  *)
(***************************************************************************)
EXTENDS Integers, Sequences, FiniteSets, Functions, TLC

CONSTANTS
    Handlers,       \* event handlers and requests that may overlap
    Outcomes,       \* outcomes of the market
    Traders,        \* accounts that trade
    Users,          \* the traders with a wallet in the database
    Sizes,          \* outcome tokens of a trade
    MaxTrades,      \* bound: trades on the chain
    MaxRedeems,     \* bound: redemptions on the chain
    MarkDefaults,   \* does the column is_monetized have a default? FALSE: none
    MaxFaults,      \* bound: crashes, failed queries and repeated deliveries
    MaxEvents       \* bound: trades and faults together

ASSUME TradersAssumption == Traders # {} /\ Users \subseteq Traders
ASSUME SizesAssumption == Sizes \subseteq Nat \ {0}
ASSUME MarkDefaultsAssumption == MarkDefaults \in SUBSET BOOLEAN
ASSUME LedgerBounds == {MaxTrades, MaxRedeems, MaxFaults, MaxEvents} \subseteq Nat

Symmetry == Permutations(Handlers) \union Permutations(Outcomes)

VARIABLES
    (* The chain. *)
    phase,      \* open, closing (the contract is, the row not yet), closed, reported
    winner,     \* the outcome with all of the payout, once reported
    trades,     \* the trade events
    redeems,    \* the redemption events
    (* The database. *)
    market,     \* closed_at and resolved_at of the market
    tokens,     \* amount_invested and trueness_ratio of its conditional tokens
    parts,      \* participations
    history,    \* redeem history
    txs,        \* transaction log of the events
    (* The server. *)
    run,        \* what each handler or request is doing
    delivered,  \* how often each log was delivered
    (* History and budget. *)
    ignored,    \* trade deliveries dropped because the market was closed
    overlapped, \* have two runs held copies of the tokens at once?
    again,      \* has the indexer started over, so that it may repeat logs?
    faults      \* faults that have occurred

chainVars == <<phase, winner, trades, redeems>>
dbVars == <<market, tokens, parts, history, txs>>
vars == <<phase, winner, trades, redeems, market, tokens, parts, history, txs, run,
          delivered, ignored, overlapped, again, faults>>

Log == [kind : {"trade"}, no : 1 .. MaxTrades]
         \union [kind : {"resolve"}, no : {1}]
         \union [kind : {"redeem"}, no : 1 .. MaxRedeems]

(* The nth delivery of a log names what is written for it.                  *)
Delivery == [log : Log, nth : 1 .. 2]

(* The amount is negative for a sale.                                      *)
Amounts == Sizes \union {-s : s \in Sizes}
TradeEvent == [trader : Traders, outcome : Outcomes, amount : Amounts]
RedeemEvent == [redeemer : Traders, payout : Nat]

(* closed, resolved: closed_at, resolved_at are set.                       *)
Market == [closed : BOOLEAN, resolved : BOOLEAN]
Trueness == {"null", "0", "1"}
Token == [invested : Int, trueness : Trueness]

(* "work": the queries a run has under way; "tx" is the transaction log,    *)
(* "check" the look at a user's participations and balances.               *)
Work == {"selectTokens", "updateTokens", "saveMarket", "parts", "history",
         "monetize", "tx", "check"}
Run == [op : {"none", "trade", "resolve", "redeem", "seen"},
        on : Delivery, who : Traders, tokens : [Outcomes -> Token], market : Market,
        work : SUBSET Work, failed : BOOLEAN,
        diff : SUBSET (Outcomes \X {"invested", "trueness"})]

NewMarket == [closed |-> FALSE, resolved |-> FALSE]
NewTokens == [o \in Outcomes |-> [invested |-> 0, trueness |-> "null"]]
Idle == [op |-> "none", on |-> [log |-> [kind |-> "resolve", no |-> 1], nth |-> 1],
         who |-> CHOOSE t \in Traders : TRUE, tokens |-> NewTokens, market |-> NewMarket,
         work |-> {}, failed |-> FALSE, diff |-> {}]

Init ==
    /\ phase = "open"
    /\ winner \in Outcomes
    /\ trades = <<>> /\ redeems = <<>>
    /\ market = NewMarket
    /\ tokens = NewTokens
    /\ parts = {} /\ history = {} /\ txs = {}
    /\ run = [h \in Handlers |-> Idle]
    /\ delivered = [l \in Log |-> 0]
    /\ ignored = {} /\ overlapped = FALSE /\ again = FALSE
    /\ faults = 0

-----------------------------------------------------------------------------
(* The chain                                                               *)

MayFail == faults < MaxFaults /\ Len(trades) + faults < MaxEvents

(* The signed sum of what a trader has traded of an outcome.                *)
Bought(t, o) ==
    SumFunctionOnSet([i \in DOMAIN trades |-> trades[i].amount],
                     {i \in DOMAIN trades : trades[i].trader = t /\ trades[i].outcome = o})

(* What a trader holds of an outcome; a redemption takes all of it.         *)
Balance(t, o) ==
    IF \E i \in DOMAIN redeems : redeems[i].redeemer = t THEN 0 ELSE Bought(t, o)

Trades(t, o, a) ==
    /\ phase = "open"
    /\ Len(trades) < MaxTrades /\ Len(trades) + faults < MaxEvents
    /\ Balance(t, o) + a >= 0
    /\ trades' = Append(trades, [trader |-> t, outcome |-> o, amount |-> a])
    /\ UNCHANGED <<phase, winner, redeems, dbVars, run, delivered, ignored, overlapped, again, faults>>

(* finalizeMarket: the contract is closed, then the row.                   *)
ContractCloses ==
    /\ phase = "open"
    /\ phase' = "closing"
    /\ UNCHANGED <<winner, trades, redeems, dbVars, run, delivered, ignored, overlapped, again, faults>>

RowCloses ==
    /\ phase = "closing"
    /\ phase' = "closed"
    /\ market' = [market EXCEPT !.closed = TRUE]
    /\ UNCHANGED <<winner, trades, redeems, tokens, parts, history, txs, run, delivered,
                   ignored, overlapped, again, faults>>

Reports ==
    /\ phase = "closed"
    /\ phase' = "reported"
    /\ UNCHANGED <<winner, trades, redeems, dbVars, run, delivered, ignored, overlapped, again, faults>>

(* redeemPositions with the index sets of all outcomes, also by an account  *)
(* that holds nothing.                                                     *)
RedeemsOnChain(t) ==
    /\ phase = "reported"
    /\ Len(redeems) < MaxRedeems
    /\ redeems' = Append(redeems, [redeemer |-> t, payout |-> Balance(t, winner)])
    /\ UNCHANGED <<phase, winner, trades, dbVars, run, delivered, ignored, overlapped, again, faults>>

Emitted(l) ==
    CASE l.kind = "trade" -> l.no <= Len(trades)
      [] l.kind = "resolve" -> phase = "reported"
      [] l.kind = "redeem" -> l.no <= Len(redeems)

-----------------------------------------------------------------------------
(* The start of a run: what it does up to the queries it sends in parallel, *)
(* from the rows as its first query finds them. Operators named ...Fault    *)
(* are plausible mistakes in the operator they precede; no specification    *)
(* uses them.                                                              *)

Active(h) == run[h].op # "none"
HoldsTokens(h) == run[h].op \in {"trade", "resolve"}

AddedFault(e) ==
    [tokens EXCEPT ![e.outcome].invested = @ + (IF e.amount < 0 THEN -e.amount ELSE e.amount)]

(* market.outcomeTokens[i].amountInvested += actualAmount                   *)
Added(e) == [tokens EXCEPT ![e.outcome].invested = @ + e.amount]

Judged == [o \in Outcomes |-> [tokens[o] EXCEPT !.trueness = IF o = winner THEN "1" ELSE "0"]]

(* updateMarketParticipations: both tables and the new participation.      *)
TradeRun(d) ==
    LET e == trades[d.log.no] IN
    [Idle EXCEPT !.op = "trade", !.on = d, !.market = market,
                 !.tokens = Added(e), !.work = {"selectTokens", "saveMarket", "parts"}]

(* setMarketResolutionData                                                 *)
ResolveRun(d) ==
    [Idle EXCEPT !.op = "resolve", !.on = d, !.market = [market EXCEPT !.resolved = TRUE],
                 !.tokens = Judged, !.work = {"selectTokens", "saveMarket"}]

(* updateRedeemHistory: a history of positive payouts, and a mark on what   *)
(* the redeemer has in the market, if it is a user.                        *)
RedeemRun(d) ==
    LET e == redeems[d.log.no] IN
    [Idle EXCEPT !.op = "redeem", !.on = d, !.who = e.redeemer,
                 !.work = (IF e.payout > 0 THEN {"history"} ELSE {})
                            \union (IF e.redeemer \in Users THEN {"monetize"} ELSE {})]

(* A trade is dropped when the market is closed, and a resolution throws    *)
(* when it is open.                                                        *)
Dropped(l) ==
    \/ l.kind = "trade" /\ market.closed
    \/ l.kind = "resolve" /\ ~market.closed

(* The indexer delivers a log, a second time only if it has started over.   *)
Deliver(h, l) ==
    /\ ~Active(h)
    /\ Emitted(l)
    /\ delivered[l] = 0 \/ (again /\ delivered[l] = 1)
    /\ delivered' = [delivered EXCEPT ![l] = @ + 1]
    /\ LET d == [log |-> l, nth |-> delivered[l] + 1] IN
       IF Dropped(l)
       THEN /\ ignored' = ignored \union {d}
            /\ UNCHANGED <<run, overlapped>>
       ELSE /\ LET r == CASE l.kind = "trade" -> TradeRun(d)
                           [] l.kind = "resolve" -> ResolveRun(d)
                           [] l.kind = "redeem" -> RedeemRun(d)
               IN  run' = [run EXCEPT ![h] = IF r.work = {} THEN Idle ELSE r]
            /\ overlapped' = (overlapped \/ (l.kind # "redeem" /\ \E g \in Handlers : HoldsTokens(g)))
            /\ UNCHANGED ignored
    /\ UNCHANGED <<chainVars, dbVars, again, faults>>

(* The first query of a handler fails: the catch clause ends it, and the     *)
(* indexer takes the log for handled.                                      *)
LoadFails(l) ==
    /\ Emitted(l)
    /\ delivered[l] = 0 \/ (again /\ delivered[l] = 1)
    /\ MayFail
    /\ faults' = faults + 1
    /\ delivered' = [delivered EXCEPT ![l] = @ + 1]
    /\ UNCHANGED <<chainVars, dbVars, run, ignored, overlapped, again>>

(* setMarketViewResultStatusAsSeen                                         *)
SeesResult(h, u) ==
    /\ ~Active(h)
    /\ market.resolved
    /\ run' = [run EXCEPT ![h] = [Idle EXCEPT !.op = "seen", !.who = u, !.tokens = tokens,
                                              !.work = {"check"}]]
    /\ UNCHANGED <<chainVars, dbVars, delivered, ignored, overlapped, again, faults>>

-----------------------------------------------------------------------------
(* The queries                                                             *)

LogsTxFault(r) == r.op \in {"trade", "redeem"}

(* Does the handler go on to addNewTransactionLog? Not when a save failed,  *)
(* nor without a redeem history: reading null.redeemerId throws.           *)
LogsTx(r) ==
    /\ ~r.failed
    /\ r.op = "trade" \/ (r.op = "redeem" /\ redeems[r.on.log.no].payout > 0)

(* A run after its query w.                                                *)
After(r, w) ==
    LET rest == [r EXCEPT !.work = @ \ {w}] IN
    IF rest.work # {} THEN rest
    ELSE IF w # "tx" /\ LogsTx(r) THEN [rest EXCEPT !.work = {"tx"}]
    ELSE Idle

Ends(h, w) == run' = [run EXCEPT ![h] = After(@, w)]
Throws(h, w) == run' = [run EXCEPT ![h] = After([@ EXCEPT !.failed = TRUE], w)]

TokenDiff(h) == {c \in Outcomes \X {"invested", "trueness"} :
                    run[h].tokens[c[1]][c[2]] # tokens[c[1]][c[2]]}

SelectTokens(h) ==
    LET r == run[h] IN
    /\ "selectTokens" \in r.work
    /\ run' = [run EXCEPT ![h] =
                 IF TokenDiff(h) = {} THEN After(r, "selectTokens")
                 ELSE [r EXCEPT !.work = (@ \ {"selectTokens"}) \union {"updateTokens"},
                                !.diff = TokenDiff(h)]]
    /\ UNCHANGED <<chainVars, dbVars, delivered, ignored, overlapped, again, faults>>

PatchedTokenFault(h, o) ==
    IF <<o, "invested">> \in run[h].diff \/ o = winner THEN run[h].tokens[o] ELSE tokens[o]

PatchedToken(h, o) ==
    [invested |-> IF <<o, "invested">> \in run[h].diff
                  THEN run[h].tokens[o].invested ELSE tokens[o].invested,
     trueness |-> IF <<o, "trueness">> \in run[h].diff
                  THEN run[h].tokens[o].trueness ELSE tokens[o].trueness]

(* The rows that differ are updated in one transaction.                    *)
UpdateTokens(h) ==
    /\ "updateTokens" \in run[h].work
    /\ tokens' = [o \in Outcomes |-> PatchedToken(h, o)]
    /\ run' = [run EXCEPT ![h] = After([@ EXCEPT !.tokens = NewTokens, !.diff = {}], "updateTokens")]
    /\ UNCHANGED <<chainVars, market, parts, history, txs, delivered, ignored, overlapped, again, faults>>

(* One step for the SELECT and the UPDATE of the market's row.              *)
SaveMarket(h) ==
    /\ "saveMarket" \in run[h].work
    /\ market' = run[h].market
    /\ run' = [run EXCEPT ![h] = After([@ EXCEPT !.market = NewMarket], "saveMarket")]
    /\ UNCHANGED <<chainVars, tokens, parts, history, txs, delivered, ignored, overlapped, again, faults>>

(* Without a default the row violates NOT NULL, and the handler will end in  *)
(* its catch clause; the other saves of its Promise.all go on.              *)
InsertParticipation(h) ==
    /\ "parts" \in run[h].work
    /\ \/ /\ TRUE \in MarkDefaults
          /\ parts' = parts \union {[of |-> run[h].on, monetized |-> FALSE]}
          /\ Ends(h, "parts")
       \/ /\ FALSE \in MarkDefaults
          /\ Throws(h, "parts")
          /\ UNCHANGED parts
    /\ UNCHANGED <<chainVars, market, tokens, history, txs, delivered, ignored, overlapped, again, faults>>

InsertHistory(h) ==
    /\ "history" \in run[h].work
    /\ history' = history \union {run[h].on}
    /\ Ends(h, "history")
    /\ UNCHANGED <<chainVars, market, tokens, parts, txs, delivered, ignored, overlapped, again, faults>>

EventOf(p) == trades[p.of.log.no]

(* isMonetized of all participations of one user in the market.            *)
Monetize(h) ==
    /\ "monetize" \in run[h].work
    /\ parts' = {IF EventOf(p).trader = run[h].who THEN [p EXCEPT !.monetized = TRUE] ELSE p :
                    p \in parts}
    /\ Ends(h, "monetize")
    /\ UNCHANGED <<chainVars, market, tokens, history, txs, delivered, ignored, overlapped, again, faults>>

CheckFault(h) ==
    /\ "check" \in run[h].work
    /\ run' = [run EXCEPT ![h] = IF \E p \in parts : EventOf(p).trader = run[h].who
                                 THEN [@ EXCEPT !.work = {"monetize"}] ELSE Idle]
    /\ UNCHANGED <<chainVars, dbVars, delivered, ignored, overlapped, again, faults>>

(* The user has taken part, and has no balance of an outcome that is right  *)
(* according to the tokens as they were loaded.                            *)
Check(h) ==
    LET u == run[h].who IN
    /\ "check" \in run[h].work
    /\ run' = [run EXCEPT ![h] =
                 IF /\ \E p \in parts : EventOf(p).trader = u
                    /\ \A o \in Outcomes : run[h].tokens[o].trueness = "1" => Balance(u, o) = 0
                 THEN [@ EXCEPT !.work = {"monetize"}] ELSE Idle]
    /\ UNCHANGED <<chainVars, dbVars, delivered, ignored, overlapped, again, faults>>

LogTransaction(h) ==
    /\ "tx" \in run[h].work
    /\ txs' = txs \union {run[h].on}
    /\ Ends(h, "tx")
    /\ UNCHANGED <<chainVars, market, tokens, parts, history, delivered, ignored, overlapped, again, faults>>

(* A query fails, or the transaction of a log cannot be read: the handler    *)
(* will end in its catch clause, what else it has sent goes on.            *)
QueryFails(h, w) ==
    /\ w \in run[h].work
    /\ MayFail
    /\ faults' = faults + 1
    /\ Throws(h, w)
    /\ UNCHANGED <<chainVars, dbVars, delivered, ignored, overlapped, again>>

(* The catch-up starts over from a saved offset: after a restart of the     *)
(* indexer beside the runs that are under way, after a crash without them.  *)
StartsOver ==
    /\ MayFail
    /\ faults' = faults + 1
    /\ again' = TRUE
    /\ run' \in {run, [h \in Handlers |-> Idle]}
    /\ UNCHANGED <<chainVars, dbVars, delivered, ignored, overlapped>>

-----------------------------------------------------------------------------
Chain ==
    \/ \E t \in Traders, o \in Outcomes, a \in Amounts : Trades(t, o, a)
    \/ ContractCloses
    \/ RowCloses
    \/ Reports
    \/ \E t \in Traders : RedeemsOnChain(t)

Proceeds(h) ==
    \/ SelectTokens(h)
    \/ UpdateTokens(h)
    \/ SaveMarket(h)
    \/ InsertParticipation(h)
    \/ InsertHistory(h)
    \/ Monetize(h)
    \/ Check(h)
    \/ LogTransaction(h)

Next ==
    \/ Chain
    \/ \E h \in Handlers, l \in Log : Deliver(h, l)
    \/ \E l \in Log : LoadFails(l)
    \/ \E h \in Handlers, u \in Users : SeesResult(h, u)
    \/ \E h \in Handlers : Proceeds(h)
    \/ \E h \in Handlers, w \in Work : QueryFails(h, w)
    \/ StartsOver

Spec == Init /\ [][Next]_vars

-----------------------------------------------------------------------------
(* Properties                                                              *)

Quiet == \A h \in Handlers : ~Active(h)

(* Every variable has its type.                                            *)
TypeOK ==
    /\ phase \in {"open", "closing", "closed", "reported"}
    /\ winner \in Outcomes
    /\ trades \in Seq(TradeEvent) /\ Len(trades) <= MaxTrades
    /\ redeems \in Seq(RedeemEvent) /\ Len(redeems) <= MaxRedeems
    /\ market \in Market
    /\ tokens \in [Outcomes -> Token]
    /\ parts \in SUBSET [of : Delivery, monetized : BOOLEAN]
    /\ history \in SUBSET Delivery /\ txs \in SUBSET Delivery
    /\ run \in [Handlers -> Run]
    /\ delivered \in [Log -> 0 .. 2]
    /\ ignored \in SUBSET Delivery
    /\ overlapped \in BOOLEAN /\ again \in BOOLEAN
    /\ faults \in 0 .. MaxFaults

(* The deliveries of the trades of an outcome, by each of which its amount  *)
(* may have been added, and what some of them add up to.                   *)
DeliveredOf(o) ==
    {d \in Delivery : /\ d.log.kind = "trade" /\ d.nth <= delivered[d.log]
                      /\ trades[d.log.no].outcome = o}

SumOfDeliveries(S) == SumFunctionOnSet([d \in S |-> trades[d.log.no].amount], S)

(* amount_invested never holds an amount nobody traded: whatever updates    *)
(* are lost, repeated or left half done by overlapping handlers, it is the  *)
(* signed sum of the trades of some of the deliveries.                     *)
NothingInvented ==
    \A o \in Outcomes :
        \E S \in SUBSET DeliveredOf(o) : tokens[o].invested = SumOfDeliveries(S)

(* The deliveries that a handler has taken up, and not dropped.             *)
HandledOf(o) == DeliveredOf(o) \ ignored

(* "Sum of all investments made on the outcome": of all those a handler has  *)
(* taken up, be their participations saved or not.                         *)
InvestedIsSum ==
    Quiet /\ faults = 0 =>
        \A o \in Outcomes : tokens[o].invested = SumOfDeliveries(HandledOf(o))

(* The same, for handlers that never overlapped, also when the insert of the *)
(* participation beside the save of the amount throws.                     *)
InvestedIsSumWithoutOverlap == ~overlapped => InvestedIsSum

(* A trade that a handler has taken up is recorded as a participation: "In   *)
(* case some account has done trading directly in blockchain" without a      *)
(* user, else with one, and not monetized by "default: false".             *)
EachTradeRecorded ==
    Quiet /\ faults = 0 =>
        \A o \in Outcomes : \A d \in HandledOf(o) : \E p \in parts : p.of = d

(* An event is in the transaction log only if what it stands for was        *)
(* recorded, also when one of the parallel saves failed or threw.          *)
LoggedMeansRecorded ==
    \A d \in txs :
        \/ d.log.kind = "trade" /\ \E p \in parts : p.of = d
        \/ d.log.kind = "redeem" /\ d \in history

(* The outcomes of a market are judged together, as percentages are made of *)
(* the ratio of one and the sum of all; and a participation is marked as     *)
(* monetized, on either of the two paths, only once payouts are reported.   *)
JudgedTogether ==
    /\ \A o, q \in Outcomes : tokens[o].trueness = "null" <=> tokens[q].trueness = "null"
    /\ \A p \in parts : p.monetized => phase = "reported"

(* The mark is for "users with nothing to claim": who gets it has redeemed, *)
(* or has no balance of the winning outcome, unless the request that sets   *)
(* it found the market resolved while its tokens were not judged yet. Of     *)
(* participations that exist, thus only while the column has its default.   *)
MonetizedHasNoClaim ==
    [][\A p \in parts' \ parts : p.monetized =>
         \/ Balance(EventOf(p).trader, winner) = 0
         \/ \E h \in Handlers : /\ run[h].op = "seen" /\ run[h].who = EventOf(p).trader
                                /\ run[h].tokens[winner].trueness = "null"]_vars

=============================================================================
