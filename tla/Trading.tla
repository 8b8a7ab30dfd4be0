------------------------------ MODULE Trading ------------------------------
(***************************************************************************)
(* A user's trade with the market maker of one binary market: what the     *)
(* server reads before it sends anything, the approvals it sends, and the  *)
(* contract that has the last word. Requests overlap, of one user or of    *)
(* several, and the prices move between any two of their steps.            *)
(*                                                                         *)
(* A payment is turned into an amount of tokens with the inventory the     *)
(* database has recorded, which lags behind the chain, and stays off when  *)
(* handlers of trade events overwrite one another; the cost of the amount  *)
(* is then asked of the chain. Logarithms are replaced by a convex  *)
(* cost with the same symmetry, whose prices are positive like theirs, and *)
(* amounts are whole tokens. Operators named ...Fault are plausible        *)
(* mistakes in the operator they precede; no specification uses them.      *)
(***************************************************************************)
EXTENDS Integers, Sequences, FiniteSetsExt

CONSTANTS
    Requests,       \* trade requests
    Handlers,       \* runs of the handler of trade events that may overlap
    Users,          \* users with a wallet
    Amounts,        \* amounts of tokens a request may name
    Payments,       \* payments a request may name
    FeePart,        \* the market's fee is 1/FeePart of the cost
    Slope,          \* price of a token while both outcomes are sold equally
    Funds,          \* collateral of a user at the start
    Stake           \* tokens of each outcome that a user holds, and that are sold, then

(* What the constants are; a root module that instantiates this one assumes *)
(* it (Services).                                                          *)
ConstantsOK ==
    /\ FeePart \in Nat \ {0, 1} /\ Slope \in Nat \ {0} /\ {Funds, Stake} \subseteq Nat
    /\ Amounts \subseteq Nat \ {0} /\ Payments \subseteq Nat \ {0}

Outcomes == 0 .. 1

VARIABLES
    (* The chain. *)
    open,       \* is the market maker running?
    inventory,  \* tokens of each outcome it has sold
    collateral, \* collateral tokens of each user
    allowance,  \* collateral the market maker may take from each user
    held,       \* outcome tokens of each user
    approved,   \* may the market maker move the outcome tokens of the user?
    (* The database. *)
    closedAt,   \* is closed_at of the market set?
    invested,   \* amount_invested of the outcome tokens
    unrecorded, \* trade events the indexer has not delivered yet
    (* The server. *)
    handler,    \* the runs of updateMarketParticipations, with their copies
    sent,       \* users whose setApprovalForAll is not mined yet
    req         \* the requests

chain == <<open, inventory, collateral, allowance, held, approved>>
row == <<closedAt, invested, unrecorded, handler>>
vars == <<open, inventory, collateral, allowance, held, approved, closedAt, invested,
          unrecorded, handler, sent, req>>

(* asked: the amount or the payment; tokens: what is traded, negative for a *)
(* sale; manual: the limit of the request, signed as its payment; drift:    *)
(* was the inventory that the payment was calculated with not the chain's,  *)
(* or has the price moved since? overlap: has another request of the user   *)
(* been under way? paid: what it cost.                                      *)
NoUser == "none"
Request == [pc : {"none", "quote", "cost", "approve", "approval", "profit", "estimate",
                  "mine", "done", "refused", "failed"},
            user : Users \union {NoUser}, sell : BOOLEAN, by : {"amount", "payment"}, outcome : Outcomes,
            asked : Nat, tokens : Int, manual : Int, limit : Int, paid : Int,
            drift : BOOLEAN, overlap : BOOLEAN]

(* amounts: the copy of amount_invested; work: the saves still to come.      *)
Handler == [amounts : [Outcomes -> Int], work : SUBSET {"saveTokens", "saveMarket"}]
Idle == [amounts |-> [o \in Outcomes |-> 0], work |-> {}]

TypeOK ==
    /\ open \in BOOLEAN /\ closedAt \in BOOLEAN
    /\ inventory \in [Outcomes -> Int] /\ invested \in [Outcomes -> Int]
    /\ collateral \in [Users -> Int] /\ allowance \in [Users -> Nat]
    /\ held \in [Users -> [Outcomes -> Nat]] /\ approved \in [Users -> BOOLEAN]
    /\ unrecorded \in Seq([outcome : Outcomes, tokens : Int])
    /\ handler \in [Handlers -> Handler]
    /\ sent \subseteq Users
    /\ req \in [Requests -> Request]

(***************************************************************************)
(* The market maker. An outcome is the dearer the more of it is sold, and    *)
(* the other the cheaper, but never for nothing, as with logarithms: past   *)
(* the bend its tokens are one each.                                        *)
(***************************************************************************)
Bend == Slope \div 2
Tilt(d) ==
    IF d \in -Bend .. Bend THEN d * d
    ELSE Bend * Bend + (Slope - 1) * ((IF d < 0 THEN -d ELSE d) - Bend)

Level(q) == Slope * (q[0] + q[1]) + Tilt(q[0] - q[1])

(* calcNetCost, negative for a sale; calcMarketFee of its absolute value.  *)
NetCost(q, o, n) == Level([q EXCEPT ![o] = @ + n]) - Level(q)
MarketFee(cost) == (IF cost < 0 THEN -cost ELSE cost) \div FeePart

(* calculateTradesAfterFeeCost: what a trade costs on the chain now.        *)
CostAfterFee(o, n) == LET cost == NetCost(inventory, o, n) IN cost + MarketFee(cost)

(* trade of the contract accepts the request's tokens under its limit.      *)
Accepts(r) ==
    LET cost == CostAfterFee(r.outcome, r.tokens)
    IN  /\ open
        /\ r.limit = 0 \/ cost <= r.limit
        /\ r.tokens > 0 => cost <= allowance[r.user] /\ cost <= collateral[r.user]
        /\ r.tokens <= 0 => approved[r.user] /\ -r.tokens <= held[r.user][r.outcome]

(***************************************************************************)
(* The server's calculation.                                               *)
(***************************************************************************)
(* calculateLmsrPurchasableTokens of a positive payment: the tokens whose   *)
(* cost, with the recorded inventory, is within the payment less the fee.   *)
Purchasable(o, payment) ==
    LET within == {n \in 1 .. payment : (FeePart + 1) * NetCost(invested, o, n)
                                            <= FeePart * payment}
    IN  IF within = {} THEN 0 ELSE Max(within)

(* The tokens worth a sale: with logarithms those past the bend bring in     *)
(* next to nothing, however many they are.                                  *)
Depth(o) == invested[o] - invested[1 - o] + Bend

SellableFault(o, payment) ==
    {n \in 1 .. Depth(o) : (FeePart - 1) * payment <= -FeePart * NetCost(invested, o, -n)}

(* ... of a negative one: the fewest tokens that bring in payment and fee;  *)
(* the logarithm of a negative number when the market is not worth as much. *)
Sellable(o, payment) ==
    {n \in 1 .. Depth(o) : FeePart * payment <= (1 - FeePart) * NetCost(invested, o, -n)}

(* The payment a sale asks for, with the fee on top: payment / (1 - fee).   *)
Gross(payment) == -((payment * FeePart) \div (FeePart - 1))

(***************************************************************************)
(* Requests.                                                               *)
(***************************************************************************)
Finished == {"none", "done", "refused", "failed"}
Active(u) == {r \in Requests : req[r].user = u /\ req[r].pc \notin Finished}

Set(r, new) == req' = [req EXCEPT ![r] = new]
Stop(r, pc) == Set(r, [req[r] EXCEPT !.pc = pc])

(* buyOutcomeToken and sellOutcomeToken of the controller: a sale of an     *)
(* amount is checked against the balance first, any other request is not.   *)
Ask(r, u, sell, by, o, n) ==
    /\ req[r].pc = "none"
    /\ LET refused == sell /\ by = "amount" /\ n > held[u][o]
           new == [req[r] EXCEPT !.pc = IF refused THEN "refused" ELSE "quote",
                     !.user = u, !.sell = sell, !.by = by, !.outcome = o, !.asked = n]
       IN  req' = [i \in Requests |->
                     IF i = r THEN [new EXCEPT !.overlap = Active(u) # {}]
                     ELSE [req[i] EXCEPT !.overlap = @ \/ i \in Active(u)]]
    /\ UNCHANGED <<chain, row, sent>>

(* The tokens trade() settles on; it does not when there is no solution.    *)
Tokens(r) ==
    CASE req[r].by = "amount" -> IF req[r].sell THEN -req[r].asked ELSE req[r].asked
      [] req[r].by = "payment" /\ ~req[r].sell -> Purchasable(req[r].outcome, req[r].asked)
      [] OTHER -> -Min(Sellable(req[r].outcome, req[r].asked))

Unsolvable(r) ==
    /\ req[r].sell /\ req[r].by = "payment"
    /\ Sellable(req[r].outcome, req[r].asked) = {}

(* trade(): the row is read, a payment becomes an amount. Zero tokens, of a *)
(* payment too small for one, are not "> 0" and go the way of a sale.       *)
Quote(r) ==
    /\ req[r].pc = "quote"
    /\ IF closedAt \/ Unsolvable(r) THEN Stop(r, "refused")
       ELSE LET tokens == Tokens(r) IN
            Set(r, [req[r] EXCEPT
                !.tokens = tokens,
                !.manual = CASE req[r].by = "amount" -> 0
                             [] req[r].by = "payment" /\ req[r].sell -> Gross(req[r].asked)
                             [] OTHER -> req[r].asked,
                !.drift = req[r].by = "payment" /\ invested # inventory,
                !.pc = IF tokens > 0 THEN "cost" ELSE "approval"])
    /\ UNCHANGED <<chain, row, sent>>

BuyLimitFault(cost, manual) == cost

(* The limit of a purchase: what it costs now, or the payment if less.      *)
BuyLimit(cost, manual) == IF manual = 0 \/ cost < manual THEN cost ELSE manual

SellLimitFault(cost, manual) == IF manual # 0 THEN manual ELSE cost

(* The limit of a sale: the opposite of the payment, or of what it costs.   *)
SellLimit(cost, manual) == -(IF manual # 0 THEN manual ELSE cost)

(* buyOutcomeToken: the cost, with the fee, is a view of the chain, and so  *)
(* is the balance it is compared with; paid holds the cost until the end.   *)
SeeCost(r) ==
    /\ req[r].pc = "cost"
    /\ LET cost == CostAfterFee(req[r].outcome, req[r].tokens)
       IN  IF cost > collateral[req[r].user] THEN Stop(r, "refused")
           ELSE Set(r, [req[r] EXCEPT !.pc = "approve", !.paid = cost,
                                      !.limit = BuyLimit(cost, req[r].manual)])
    /\ UNCHANGED <<chain, row, sent>>

(* The approval is mined before the trade is sent; it replaces an earlier one. *)
Approve(r) ==
    /\ req[r].pc = "approve"
    /\ allowance' = [allowance EXCEPT ![req[r].user] = req[r].paid]
    /\ Stop(r, "estimate")
    /\ UNCHANGED <<open, inventory, collateral, held, approved, row, sent>>

(* sellOutcomeToken: without an approval one is sent, and not waited for.   *)
LookApproved(r) ==
    /\ req[r].pc = "approval"
    /\ sent' = IF approved[req[r].user] THEN sent ELSE sent \union {req[r].user}
    /\ Stop(r, "profit")
    /\ UNCHANGED <<chain, row>>

(* A view that fails returns null: a purchase stops at it, the limit of a   *)
(* sale becomes zero, which is none.                                        *)
QuoteSale(r) ==
    /\ req[r].pc = "profit"
    /\ \E cost \in {CostAfterFee(req[r].outcome, req[r].tokens), 0} :
           Set(r, [req[r] EXCEPT !.pc = "estimate",
                                 !.limit = SellLimit(cost, req[r].manual)])
    /\ UNCHANGED <<chain, row, sent>>

FailView(r) ==
    /\ req[r].pc = "cost"
    /\ Stop(r, "refused")
    /\ UNCHANGED <<chain, row, sent>>

(* call() estimates the gas first: a transaction that would revert is not   *)
(* sent.                                                                    *)
Estimate(r) ==
    /\ req[r].pc = "estimate"
    /\ Stop(r, IF Accepts(req[r]) THEN "mine" ELSE "failed")
    /\ UNCHANGED <<chain, row, sent>>

(* The trade is mined: it takes the collateral and moves the tokens, or it  *)
(* reverts.                                                                 *)
Mine(r) ==
    /\ req[r].pc = "mine"
    /\ LET me == req[r]
           cost == CostAfterFee(me.outcome, me.tokens)
       IN  IF ~Accepts(me) THEN Stop(r, "failed") /\ UNCHANGED <<chain, row>>
           ELSE /\ inventory' = [inventory EXCEPT ![me.outcome] = @ + me.tokens]
                /\ collateral' = [collateral EXCEPT ![me.user] = @ - cost]
                /\ allowance' = [allowance EXCEPT
                                   ![me.user] = @ - (IF me.tokens > 0 THEN cost ELSE 0)]
                /\ held' = [held EXCEPT ![me.user][me.outcome] = @ + me.tokens]
                /\ unrecorded' = Append(unrecorded, [outcome |-> me.outcome,
                                                     tokens |-> me.tokens])
                /\ req' = [i \in Requests |->
                             IF i = r THEN [me EXCEPT !.pc = "done", !.paid = cost]
                             ELSE [req[i] EXCEPT !.drift = TRUE]]
                /\ UNCHANGED <<open, approved, closedAt, invested, handler>>
    /\ UNCHANGED sent

MineApproval(u) ==
    /\ u \in sent
    /\ approved' = [approved EXCEPT ![u] = TRUE]
    /\ sent' = sent \ {u}
    /\ UNCHANGED <<open, inventory, collateral, allowance, held, row, req>>

-----------------------------------------------------------------------------
(* The trade events. *)

(* The handler of the oldest event reads the rows and adds its tokens to    *)
(* the copy; it drops the event if the row is closed.                       *)
Deliver(h) ==
    /\ unrecorded # <<>> /\ handler[h].work = {}
    /\ unrecorded' = Tail(unrecorded)
    /\ handler' = IF closedAt THEN handler ELSE [handler EXCEPT ![h] =
         [amounts |-> [invested EXCEPT ![Head(unrecorded).outcome] = @ + Head(unrecorded).tokens],
          work |-> {"saveTokens", "saveMarket"}]]
    /\ UNCHANGED <<chain, closedAt, invested, sent, req>>

(* Its queries fail; the indexer takes the event for handled.               *)
GiveUp ==
    /\ unrecorded # <<>>
    /\ unrecorded' = Tail(unrecorded)
    /\ UNCHANGED <<chain, closedAt, invested, handler, sent, req>>

Done(h, query) ==
    LET left == handler[h].work \ {query}
    IN  handler' = [handler EXCEPT ![h] =
                      IF left = {} THEN Idle
                      ELSE [amounts |-> handler[h].amounts, work |-> left]]

(* save(market.outcomeTokens) writes the amounts that differed from what    *)
(* its SELECT found, now or some steps ago; or none, if it fails.           *)
SaveTokens(h) ==
    /\ "saveTokens" \in handler[h].work
    /\ \E diff \in SUBSET Outcomes :
           invested' = [o \in Outcomes |-> IF o \in diff THEN handler[h].amounts[o] ELSE invested[o]]
    /\ Done(h, "saveTokens")
    /\ UNCHANGED <<chain, closedAt, unrecorded, sent, req>>

(* save(market) writes the closed_at of a copy that has none; or it fails.  *)
SaveMarket(h) ==
    /\ "saveMarket" \in handler[h].work
    /\ closedAt' \in {FALSE, closedAt}
    /\ Done(h, "saveMarket")
    /\ UNCHANGED <<chain, invested, unrecorded, sent, req>>

(* The market maker is closed, and later its row.                           *)
Close ==
    /\ open
    /\ open' = FALSE
    /\ UNCHANGED <<inventory, collateral, allowance, held, approved, row, sent, req>>

CloseRow ==
    /\ ~open /\ ~closedAt
    /\ closedAt' = TRUE
    /\ UNCHANGED <<chain, invested, unrecorded, handler, sent, req>>

Init ==
    /\ open = TRUE /\ closedAt = FALSE
    /\ inventory = [o \in Outcomes |-> Stake] /\ invested = inventory
    /\ collateral = [u \in Users |-> Funds] /\ allowance = [u \in Users |-> 0]
    /\ held = [u \in Users |-> [o \in Outcomes |-> Stake]]
    /\ approved \in [Users -> BOOLEAN]
    /\ unrecorded = <<>> /\ handler = [h \in Handlers |-> Idle] /\ sent = {}
    /\ req = [r \in Requests |->
                [pc |-> "none", user |-> NoUser, sell |-> FALSE,
                 by |-> "amount", outcome |-> 0, asked |-> 0, tokens |-> 0, manual |-> 0,
                 limit |-> 0, paid |-> 0, drift |-> FALSE, overlap |-> FALSE]]

Step(r) ==
    \/ Quote(r) \/ SeeCost(r) \/ FailView(r) \/ Approve(r)
    \/ LookApproved(r) \/ QuoteSale(r) \/ Estimate(r) \/ Mine(r)

Handle(h) == Deliver(h) \/ SaveTokens(h) \/ SaveMarket(h)

Next ==
    \/ \E r \in Requests : Step(r)
    \/ \E r \in Requests, u \in Users, sell \in BOOLEAN, o \in Outcomes :
           \/ \E n \in Amounts : Ask(r, u, sell, "amount", o, n)
           \/ \E n \in Payments : Ask(r, u, sell, "payment", o, n)
    \/ \E u \in Users : MineApproval(u)
    \/ \E h \in Handlers : Handle(h)
    \/ GiveUp \/ Close \/ CloseRow

Spec == Init /\ [][Next]_vars

(***************************************************************************)
(* Properties.                                                             *)
(***************************************************************************)
(* Whatever the others do between the steps of a purchase, it never costs   *)
(* more than the payment the user named: neither a recorded inventory that  *)
(* lags or has lost trades nor a price that moves can make it.              *)
BuyWithinPayment == \A r \in Requests :
    req[r].pc = "done" /\ ~req[r].sell /\ req[r].by = "payment"
        => req[r].paid <= req[r].asked

(* A sale for a payment brings in the payment, fee deducted, unless the     *)
(* recorded inventory it was calculated with was not the chain's (a trade   *)
(* not recorded yet, or lost, doubled or dropped by its handlers), or the   *)
(* price has moved since: the limit sent with a sale is positive and does   *)
(* not hold the market maker to anything.                                  *)
SalePaysUnlessDrift == \A r \in Requests :
    req[r].pc = "done" /\ req[r].sell /\ req[r].by = "payment" /\ ~req[r].drift
        => -req[r].paid >= req[r].asked

(* A trade that the server has sent to the chain, or tried to, is accepted  *)
(* there but for one of the known reasons: the payment was calculated with  *)
(* recorded amounts that were not the chain's, or the price has moved since *)
(* (both are drift); requests of the user overlapped; the market closed;    *)
(* the payment buys less than a token; the user owns too little; or the     *)
(* approval sent is not mined yet.                                          *)
FailsForAReason == [][\A r \in Requests :
    req[r].pc # "failed" /\ req'[r].pc = "failed" =>
        \/ req[r].drift \/ req[r].overlap \/ ~open
        \/ req[r].tokens = 0
        \/ -req[r].tokens > held[req[r].user][req[r].outcome]
        \/ req[r].sell /\ req[r].user \in sent]_vars
=============================================================================
