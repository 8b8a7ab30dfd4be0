------------------------------- MODULE Reports -------------------------------
(***************************************************************************)
(* The lists and sums the server reads from its rows: pages of markets and *)
(* of trades, pools of collateral, statistics, and the order that pinning  *)
(* gives the markets. Rows come, change and are removed here; what makes   *)
(* them come and change is in MarketLifecycle and Ledger.                  *)
(*                                                                         *)
(* Markets are numbered by creation, as are trades; no two are created at  *)
(* once. The lists are those in that order. Of lists by another column, or *)
(* by participants, nothing is said: equal values come in any order.       *)
(* Operators named ...Fault are plausible mistakes in the operator they    *)
(* precede; no specification uses them.                                    *)
(***************************************************************************)
EXTENDS Integers, Sequences, FiniteSets, SequencesExt

CONSTANTS
    Users,
    Nobody,         \* user of a trade that was made directly on the chain
    Markets,        \* numbers of the markets
    Amounts,        \* payments
    MaxTrades,      \* bound: participations
    MaxPins,        \* bound: requests to pin
    MaxRemoved      \* bound: markets that are removed

VARIABLES
    trades,         \* rows of participations
    closed,         \* markets with closed_at
    resolved,       \* markets with resolved_at
    truth,          \* truth[m]: trueness ratio of the one outcome that is told apart
    priority,       \* priority[m]
    pins,           \* requests to pin so far
    removed,        \* markets whose row has deleted_at
    dropped         \* markets whose outcome tokens have deleted_at

vars == <<trades, closed, resolved, truth, priority, pins, removed, dropped>>

(* -------------------------------- lists -------------------------------- *)

Lesser(a, b) == IF a < b THEN a ELSE b

(* skip and take of the database.                                           *)
PageFault(list, skip, take) == SubSeq(list, skip + 1, Lesser(take, Len(list)))
Page(list, skip, take) == SubSeq(list, skip + 1, Lesser(skip + take, Len(list)))

(* The rows of a list that are among some, in the order of the list.        *)
Filter(list, rows) ==
    LET filtered[i \in 0 .. Len(list)] ==
            IF i = 0 THEN <<>>
            ELSE filtered[i - 1] \o (IF list[i] \in rows THEN <<list[i]>> ELSE <<>>)
    IN  filtered[Len(list)]

(* The inner join leaves out the trades nobody of the users has made.       *)
FindParticipants(m) ==
    {u \in Users : \E i \in DOMAIN trades : trades[i].market = m /\ trades[i].user = u}

(* A count of the distinct users of the rows; no user does not count.       *)
Participants(m) ==
    Cardinality({trades[i].user : i \in {j \in DOMAIN trades : trades[j].market = m}} \ {Nobody})

(* "resolved" falls through to "closed".                                    *)
WithStatus(status) ==
    {m \in Markets \ removed :
        /\ status = "ongoing" => m \notin closed
        /\ status = "resolved" => m \in resolved
        /\ status \in {"resolved", "closed"} => m \in closed}

Before(prioritized, a, b) ==
    IF prioritized /\ priority[a] # priority[b] THEN priority[a] > priority[b] ELSE a < b

(* A market's place in the list is told by the markets before it.           *)
Rank(status, prioritized, m) ==
    1 + Cardinality({n \in WithStatus(status) : Before(prioritized, n, m)})

Sorted(status, prioritized) ==
    [i \in 1 .. Cardinality(WithStatus(status)) |->
        CHOOSE m \in WithStatus(status) : Rank(status, prioritized, m) = i]

FindMarkets(status, prioritized, skip, take) == Page(Sorted(status, prioritized), skip, take)

(* What a trade came to: buyers win what sellers lose. An outcome that is   *)
(* removed is not loaded with its trade.                                    *)
Result(trade) ==
    IF trade.market \notin resolved \ dropped THEN "not-resolved"
    ELSE IF (trade.mode = "buy") = (truth[trade.market] = 1) THEN "won" ELSE "lost"

TradesOf(user) == {t \in Range(trades) : t.user = user}
TradesWith(result) == {t \in Range(trades) : result \in {"any", Result(t)}}

(* The result is no column: it is asked of the rows of the page.            *)
FindTrades(user, result, skip, take) ==
    Filter(Page(Filter(trades, TradesOf(user)), skip, take), TradesWith(result))

(* --------------------------------- sums -------------------------------- *)

Chosen(Test(_)) == {i \in DOMAIN trades : Test(trades[i])}
SumOf(rows, F(_)) == SumFunction([i \in rows |-> F(trades[i])])

SignedFault(trade) == trade.payment
Signed(trade) == IF trade.mode = "buy" THEN trade.payment ELSE -trade.payment
Payment(trade) == trade.payment

TotalCollateralPool(m) == SumOf(Chosen(LAMBDA t : t.market = m), Signed)

CumulativeCollateralPool(m) ==
    SumOf(Chosen(LAMBDA t : t.market = m /\ t.mode = "buy"), Payment)

(* getUserTotalTrades: purchases less sales of a user, or either of them,   *)
(* for each outcome the user has such trades of; here each market has one.  *)
(* The inner join leaves out the outcomes that are removed.                 *)
UserTotals(user, mode) ==
    LET of(m) == Chosen(LAMBDA t : t.user = user /\ t.market = m /\ mode \in {"all", t.mode})
    IN  [m \in {n \in Markets \ dropped : of(n) # {}} |->
            IF mode = "all" THEN SumOf(of(m), Signed) ELSE SumOf(of(m), Payment)]

(* The statistics of a user and of the platform. They count the trades of   *)
(* removed markets, but not those markets as closed or resolved. Amounts    *)
(* and payments grow alike here: a share is kept where more was bought than *)
(* sold.                                                                    *)
UserStatistics(user) ==
    LET mine == Chosen(LAMBDA t : t.user = user)
        bought == {i \in mine : trades[i].mode = "buy"}
        in == {trades[i].market : i \in mine}
        here == in \ removed
    IN  [purchases |-> Cardinality(bought), sells |-> Cardinality(mine \ bought),
         payments |-> SumOf(bought, Payment), payouts |-> SumOf(mine \ bought, Payment),
         participated |-> Cardinality(in),
         waiting |-> Cardinality(here \intersect closed) - Cardinality(here \intersect resolved),
         wins |-> Cardinality({m \in DOMAIN UserTotals(user, "all") \intersect resolved :
                    truth[m] # 0 /\ UserTotals(user, "all")[m] > 0})]

GeneralStatistics ==
    LET bought == Chosen(LAMBDA t : t.mode = "buy") IN
    [payments |-> SumOf(bought, Payment), payouts |-> SumOf(DOMAIN trades \ bought, Payment),
     pool |-> SumOf(bought, Payment) - SumOf(DOMAIN trades \ bought, Payment),
     waiting |-> Cardinality(closed \ removed) - Cardinality(resolved \ removed)]

(* -------------------------------- changes ------------------------------ *)

(* What is traded, closed or resolved is looked for first, and found unless *)
(* it was removed.                                                         *)
Trade(m) ==
    /\ m \notin removed \union dropped
    /\ Len(trades) < MaxTrades
    /\ \E user \in Users \union {Nobody}, mode \in {"buy", "sell"}, payment \in Amounts :
         trades' = Append(trades, [user |-> user, market |-> m, mode |-> mode,
                                   payment |-> payment])
    /\ UNCHANGED <<closed, resolved, truth, priority, pins, removed, dropped>>

Close(m) ==
    /\ m \notin closed \union removed
    /\ closed' = closed \union {m}
    /\ UNCHANGED <<trades, resolved, truth, priority, pins, removed, dropped>>

Resolve(m) ==
    /\ m \in (closed \ resolved) \ removed
    /\ resolved' = resolved \union {m}
    /\ \E ratio \in {0, 1} : truth' = [truth EXCEPT ![m] = ratio]
    /\ UNCHANGED <<trades, closed, priority, pins, removed, dropped>>

(* softRemovePredictionMarket: the row and its outcome tokens, at once and   *)
(* apart; either may fail, and then the row that is left can be removed     *)
(* again. The trades stay.                                                 *)
RemoveMarket(m) ==
    /\ m \notin removed
    /\ m \in dropped \/ Cardinality(removed \union dropped) < MaxRemoved
    /\ removed' \in {removed, removed \union {m}}
    /\ dropped' \in {dropped, dropped \union {m}}
    /\ UNCHANGED <<trades, closed, resolved, truth, priority, pins>>

(* A trade handler, or an update of the market, saves copies it loaded       *)
(* before the removal, without deleted_at.                                  *)
SaveStale(m) ==
    /\ m \in removed \union dropped
    /\ removed' \in {removed, removed \ {m}}
    /\ dropped' \in {dropped, dropped \ {m}}
    /\ UNCHANGED <<trades, closed, resolved, truth, priority, pins>>

(* ----------------------------- priorities ------------------------------ *)

(* Above the highest of the others, and at least 2: one statement, which    *)
(* also sees and changes removed rows.                                     *)
Pin(m) ==
    /\ pins < MaxPins
    /\ LET others == {priority[n] : n \in Markets \ {m}} IN
       priority' = [priority EXCEPT ![m] =
                      1 + (CHOOSE p \in others : \A q \in others : q <= p)]
    /\ pins' = pins + 1
    /\ UNCHANGED <<trades, closed, resolved, truth, removed, dropped>>

(* An update with a fee and the lowest priority. unpinMarket, an update       *)
(* without a fee, fails before it saves anything (see MarketLifecycle).     *)
SetPriority(m) ==
    /\ m \notin removed /\ priority[m] # 1
    /\ priority' = [priority EXCEPT ![m] = 1]
    /\ UNCHANGED <<trades, closed, resolved, truth, pins, removed, dropped>>

Init ==
    /\ trades = <<>> /\ closed = {} /\ resolved = {}
    /\ truth = [m \in Markets |-> 0]
    /\ priority = [m \in Markets |-> 1]
    /\ pins = 0 /\ removed = {} /\ dropped = {}

Next == \E m \in Markets :
            \/ Trade(m) \/ Close(m) \/ Resolve(m) \/ Pin(m) \/ SetPriority(m)
            \/ RemoveMarket(m) \/ SaveStale(m)

Spec == Init /\ [][Next]_vars

(* ------------------------------ properties ----------------------------- *)

Statuses == {"any", "ongoing", "closed", "resolved"}

(* All pages of a list, one behind the other.                               *)
Pages(list(_, _), n, take) == FlattenSeq([i \in 1 .. n |-> list((i - 1) * take, take)])

(* "skip: the index of item to start fetching items from; take: max number  *)
(* of items to be fetched": each market of a status is on one page of its   *)
(* list, whatever the priorities, and each trade of a user with a result on *)
(* one page, though the result is asked of the rows of a page.              *)
PagesMakeUpLists ==
    /\ \A status \in Statuses, take \in 1 .. 2, prioritized \in BOOLEAN :
         LET list == Sorted(status, prioritized) IN
         /\ Pages(LAMBDA s, t : FindMarkets(status, prioritized, s, t),
                  Cardinality(Markets), take) = list
         /\ Range(list) = WithStatus(status)
    /\ \A user \in Users, result \in {"any", "won", "lost"}, take \in 1 .. 2 :
         Pages(LAMBDA s, t : FindTrades(user, result, s, t), MaxTrades, take)
           = Filter(trades, TradesOf(user) \intersect TradesWith(result))

(* A user's trades of outcomes that are removed.                            *)
Missing(user) == Chosen(LAMBDA t : t.user = user /\ t.market \in dropped)
MissingSales(user) == {i \in Missing(user) : trades[i].mode = "sell"}

(* The pools of the markets, with the removed ones, add up to the pool of   *)
(* the platform, and what the users paid and were paid to no more than it   *)
(* counts. A user's totals of the outcomes come to what the user's          *)
(* statistics say, short of the trades of removed outcomes, which only the  *)
(* statistics count. The participants that are listed are those that are    *)
(* counted.                                                                *)
PoolsAddUp ==
    /\ SumFunction([m \in Markets |-> TotalCollateralPool(m)]) = GeneralStatistics.pool
    /\ \A m \in Markets : TotalCollateralPool(m) <= CumulativeCollateralPool(m)
    /\ SumFunction([u \in Users |-> UserStatistics(u).payments]) <= GeneralStatistics.payments
    /\ SumFunction([u \in Users |-> UserStatistics(u).payouts]) <= GeneralStatistics.payouts
    /\ \A u \in Users :
          /\ UserStatistics(u).payments - UserStatistics(u).payouts
               = SumFunction(UserTotals(u, "all")) + SumOf(Missing(u), Signed)
          /\ UserStatistics(u).payouts
               = SumFunction(UserTotals(u, "sell")) + SumOf(MissingSales(u), Payment)
          /\ UserStatistics(u).participated = Cardinality({m \in Markets : u \in FindParticipants(m)})
    /\ \A m \in Markets : Participants(m) = Cardinality(FindParticipants(m))

=============================================================================
