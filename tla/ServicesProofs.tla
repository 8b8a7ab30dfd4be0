--------------------------- MODULE ServicesProofs ---------------------------
(***************************************************************************)
(* Proofs about the other services, for any set of users and requests: the  *)
(* trades of users (what a request has read of prices, collateral and         *)
(* allowances, and what can have changed them when its transaction is mined), *)
(* the price cache, the accounts, the categories, the outcomes of markets,    *)
(* the notices and the reminders; what several services promise; the lists    *)
(* and sums, from ReportsProofs; and the routes. As in FundsProofs, an        *)
(* invariant is proved of the steps of one service, and carried over to       *)
(* Services by the first lemma of its part.                                   *)
(***************************************************************************)
EXTENDS FundsProofs

(***************************************************************************)
(* The trades of users.                                                    *)
(***************************************************************************)

(* What is sold of two outcomes.                                            *)
Inventories == [0 .. 1 -> Int]

(* The tilt of the prices is steep, but less than the slope.                *)
LEMMA TiltIsLess ==
    ASSUME NEW d \in Int, NEW e \in Int, d < e
    PROVE  /\ T!Tilt(d) \in Int /\ T!Tilt(e) \in Int
           /\ T!Tilt(e) - T!Tilt(d) < 6 * (e - d)
           /\ T!Tilt(d) - T!Tilt(e) < 6 * (e - d)
<1> DEFINE far(x) == IF x < 0 THEN -x ELSE x
           tilt(x) == IF x \in -3 .. 3 THEN x * x ELSE 9 + 5 * (far(x) - 3)
<1>1. \A x \in Int : T!Tilt(x) = tilt(x)
  <2>1. T!Bend = 3
    BY DEF T!Bend
  <2> QED
    BY <2>1 DEF T!Tilt
<1>2. \A x \in Int : \/ x < -3 /\ tilt(x) = -5 * x - 6
                     \/ x > 3 /\ tilt(x) = 5 * x - 6
                     \/ x = -3 /\ tilt(x) = 9
                     \/ x = -2 /\ tilt(x) = 4
                     \/ x = -1 /\ tilt(x) = 1
                     \/ x = 0 /\ tilt(x) = 0
                     \/ x = 1 /\ tilt(x) = 1
                     \/ x = 2 /\ tilt(x) = 4
                     \/ x = 3 /\ tilt(x) = 9
  OBVIOUS
<1>3. \A x \in Int : tilt(x) \in Int
  BY <1>2
<1> HIDE DEF tilt
<1>4. tilt(e) - tilt(d) < 6 * (e - d) /\ tilt(d) - tilt(e) < 6 * (e - d)
  BY <1>2
<1> QED
  BY <1>1, <1>3, <1>4

(* The tilt of whole tokens is a whole number.                              *)
LEMMA TiltIsInt == ASSUME NEW d \in Int PROVE T!Tilt(d) \in Int
<1>1. d + 1 \in Int /\ d < d + 1
  OBVIOUS
<1> QED
  BY <1>1, TiltIsLess

(* Prices are positive: tokens cost something, and selling them brings in   *)
(* something.                                                               *)
LEMMA PricesArePositive ==
    ASSUME NEW q \in Inventories, NEW o \in 0 .. 1, NEW n \in Int
    PROVE  /\ T!NetCost(q, o, n) \in Int
           /\ n > 0 => T!NetCost(q, o, n) > 0
           /\ n < 0 => T!NetCost(q, o, n) < 0
           /\ n = 0 => T!NetCost(q, o, n) = 0
<1>1. PICK a \in Int, b \in Int : a = q[0] /\ b = q[1]
  BY DEF Inventories
<1>2. PICK p \in Inventories : p = [q EXCEPT ![o] = q[o] + n]
  <2>1. q[o] + n \in Int
    BY DEF Inventories
  <2>2. [q EXCEPT ![o] = q[o] + n] \in Inventories
    BY <2>1 DEF Inventories
  <2> QED
    BY <2>2
<1>3. T!NetCost(q, o, n) = 6 * (p[0] + p[1]) + T!Tilt(p[0] - p[1]) - (6 * (a + b) + T!Tilt(a - b))
  <2>1. T!NetCost(q, o, n) = T!Level(p) - T!Level(q)
    BY <1>2 DEF T!NetCost
  <2>2. T!Level(p) = 6 * (p[0] + p[1]) + T!Tilt(p[0] - p[1])
    BY DEF T!Level
  <2>3. T!Level(q) = 6 * (a + b) + T!Tilt(a - b)
    BY <1>1 DEF T!Level
  <2>4. /\ p[0] \in Int /\ p[1] \in Int /\ p[0] - p[1] \in Int
        /\ T!Tilt(p[0] - p[1]) \in Int /\ T!Tilt(a - b) \in Int
    <3>1. p[0] \in Int /\ p[1] \in Int /\ p[0] - p[1] \in Int /\ a - b \in Int
      BY DEF Inventories
    <3> QED
      BY <3>1, TiltIsInt
  <2> QED
    BY <2>1, <2>2, <2>3, <2>4
<1>4. T!Tilt(a - b) \in Int
  BY TiltIsInt
<1>5. CASE o = 0
  <2>1. p[0] = a + n /\ p[1] = b
    BY <1>1, <1>2, <1>5 DEF Inventories
  <2>2. PICK d \in Int, e \in Int : d = a - b /\ e = a + n - b /\ e = d + n
    OBVIOUS
  <2>3. T!NetCost(q, o, n) = 6 * (a + n + b) + T!Tilt(e) - (6 * (a + b) + T!Tilt(d))
    BY <1>3, <2>1, <2>2
  <2>4. T!Tilt(d) \in Int /\ T!Tilt(e) \in Int
    BY TiltIsInt
  <2>5. T!NetCost(q, o, n) = 6 * n + T!Tilt(e) - T!Tilt(d)
    BY <2>3, <2>4
  <2>6. d < e => /\ T!Tilt(d) - T!Tilt(e) < 6 * (e - d)
                 /\ T!Tilt(e) - T!Tilt(d) < 6 * (e - d)
    BY TiltIsLess
  <2>7. e < d => /\ T!Tilt(e) - T!Tilt(d) < 6 * (d - e)
                 /\ T!Tilt(d) - T!Tilt(e) < 6 * (d - e)
    BY TiltIsLess
  <2>8. PICK x \in Int, y \in Int : x = T!Tilt(d) /\ y = T!Tilt(e)
    BY <2>4
  <2>9. T!NetCost(q, o, n) = 6 * n + y - x
    BY <2>5, <2>8
  <2>10. /\ d < e => x - y < 6 * (e - d) /\ y - x < 6 * (e - d)
         /\ e < d => y - x < 6 * (d - e) /\ x - y < 6 * (d - e)
         /\ d = e => x = y
    BY <2>6, <2>7, <2>8
  <2> QED
    BY <2>2, <2>9, <2>10
<1>6. CASE o = 1
  <2>1. p[0] = a /\ p[1] = b + n
    BY <1>1, <1>2, <1>6 DEF Inventories
  <2>2. PICK d \in Int, e \in Int : d = a - b /\ e = a - (b + n) /\ e = d - n
    OBVIOUS
  <2>3. T!NetCost(q, o, n) = 6 * (a + (b + n)) + T!Tilt(e) - (6 * (a + b) + T!Tilt(d))
    BY <1>3, <2>1, <2>2
  <2>4. T!Tilt(d) \in Int /\ T!Tilt(e) \in Int
    BY TiltIsInt
  <2>5. T!NetCost(q, o, n) = 6 * n + T!Tilt(e) - T!Tilt(d)
    BY <2>3, <2>4
  <2>6. d < e => /\ T!Tilt(d) - T!Tilt(e) < 6 * (e - d)
                 /\ T!Tilt(e) - T!Tilt(d) < 6 * (e - d)
    BY TiltIsLess
  <2>7. e < d => /\ T!Tilt(e) - T!Tilt(d) < 6 * (d - e)
                 /\ T!Tilt(d) - T!Tilt(e) < 6 * (d - e)
    BY TiltIsLess
  <2>8. PICK x \in Int, y \in Int : x = T!Tilt(d) /\ y = T!Tilt(e)
    BY <2>4
  <2>9. T!NetCost(q, o, n) = 6 * n + y - x
    BY <2>5, <2>8
  <2>10. /\ d < e => x - y < 6 * (e - d) /\ y - x < 6 * (e - d)
         /\ e < d => y - x < 6 * (d - e) /\ x - y < 6 * (d - e)
         /\ d = e => x = y
    BY <2>6, <2>7, <2>8
  <2> QED
    BY <2>2, <2>9, <2>10
<1> QED
  BY <1>5, <1>6

(* The cost with its fee has the sign of the cost.                          *)
CostAt(q, o, n) == T!NetCost(q, o, n) + T!MarketFee(T!NetCost(q, o, n))
(* What a trade costs with its fee fits the payment that its tokens were    *)
(* calculated for.                                                          *)
LEMMA CostsAndFees ==
    ASSUME NEW q \in Inventories, NEW o \in 0 .. 1, NEW n \in Int
    PROVE  /\ CostAt(q, o, n) \in Int
           /\ n > 0 => CostAt(q, o, n) > 0
           /\ n < 0 => CostAt(q, o, n) < 0
           /\ n = 0 => CostAt(q, o, n) = 0
           /\ \A p \in Nat \ {0} : n > 0 /\ 5 * T!NetCost(q, o, n) <= 4 * p => CostAt(q, o, n) <= p
           /\ \A p \in Nat \ {0} : 4 * p <= -3 * T!NetCost(q, o, n) => -CostAt(q, o, n) >= p
<1>1. PICK c \in Int : c = T!NetCost(q, o, n)
  BY PricesArePositive
<1>2. (n > 0 => c > 0) /\ (n < 0 => c < 0) /\ (n = 0 => c = 0)
  BY <1>1, PricesArePositive
<1>3. CostAt(q, o, n) = c + ((IF c < 0 THEN -c ELSE c) \div 4)
  BY <1>1 DEF CostAt, T!MarketFee
<1> QED
  BY <1>1, <1>2, <1>3

(* The least of some tokens, and the most of those within reach, is one.     *)
LEMMA MinIsOne ==
    ASSUME NEW nums \in SUBSET Nat, nums # {}
    PROVE  T!Min(nums) \in nums
<1>1. \E n \in nums : \A m \in nums : n <= m
  BY LeastNatural
<1> QED
  BY <1>1 DEF T!Min

(* The most of some tokens that are bounded is one of them.                 *)
LEMMA MaxIsOne ==
    ASSUME NEW nums \in SUBSET Nat, nums # {}, NEW top \in Nat, \A n \in nums : n <= top
    PROVE  T!Max(nums) \in nums
<1> DEFINE below == {top - n : n \in nums}
<1>1. below \in SUBSET Nat /\ below # {}
  <2>1. \A n \in nums : top - n \in Nat
    OBVIOUS
  <2> QED
    BY <2>1
<1>2. PICK k \in below : \A m \in below : k <= m
  <2> HIDE DEF below
  <2> QED
    BY <1>1, LeastNatural
<1>3. PICK n \in nums : k = top - n
  BY <1>2
<1>4. \A m \in nums : n >= m
  <2> SUFFICES ASSUME NEW m \in nums
               PROVE  n >= m
    OBVIOUS
  <2>1. top - n <= top - m
    BY <1>2, <1>3
  <2> QED
    BY <2>1
<1> QED
  BY <1>4 DEF T!Max

(* A step of the system is one of trading, or leaves it alone.               *)
LEMMA TradingStep == [Next]_vars => [T!Next]_(T!vars)
  BY DEF Next, Others, tradingVars, vars, T!vars

(* Requests that the server works on; what they trade, and with which limit. *)
(* Zero tokens, of a payment too small for one, go the way of a sale.        *)
Underway == {"quote", "cost", "approve", "approval", "profit", "estimate", "mine"}
Settled == (Underway \ {"quote"}) \union {"done", "failed"}
Sent == {"estimate", "mine"}

SidesOK(me) ==
    /\ me.pc # "none" => me.user \in Users /\ me.asked \in Nat \ {0}
    /\ me.pc \in Settled => /\ me.tokens > 0 => ~me.sell
                            /\ me.tokens < 0 => me.sell
                            /\ me.by = "payment" /\ ~me.sell => me.manual = me.asked
                            /\ me.by = "payment" /\ me.sell => me.manual < 0
                            /\ me.by = "amount" => me.manual = 0
    /\ me.pc \in {"cost", "approve"} => me.tokens > 0
    /\ me.pc \in {"approval", "profit"} => me.tokens <= 0

(* The limits: of a purchase no more than the payment, of a sale none or one *)
(* that any sale keeps.                                                     *)
LimitsOK(me) ==
    /\ me.pc \in Sent \union {"approve"} /\ me.tokens > 0
          => me.limit > 0 /\ (me.by = "payment" => me.limit <= me.asked)
    /\ me.pc \in Sent /\ me.tokens < 0 => me.limit >= 0

(* As long as the prices are those the request has read, its tokens are      *)
(* what the payment buys, or bring it in, and cost what was read.            *)
PricesOK(me, q) == ~me.drift =>
    /\ me.pc \in Sent \union {"cost", "approve"} /\ me.by = "payment" /\ me.tokens > 0
          => 5 * T!NetCost(q, me.outcome, me.tokens) <= 4 * me.asked
    /\ me.pc \in Sent \union {"approval", "profit"} /\ me.by = "payment" /\ me.sell
          => 4 * me.asked <= -3 * T!NetCost(q, me.outcome, me.tokens)
    /\ me.pc \in Sent \union {"approve"} /\ me.tokens > 0
          => me.paid = CostAt(q, me.outcome, me.tokens) /\ me.limit = me.paid

(* A lone purchase of a user finds the collateral and the allowance it has   *)
(* seen and sent; a sale has its approval, or one is on its way.             *)
OwnOK(me, col, al, ap, on) ==
    /\ me.pc \in Sent \union {"approve"} /\ me.tokens > 0 /\ ~me.overlap
          => me.paid <= col[me.user]
    /\ me.pc \in Sent /\ me.tokens > 0 /\ ~me.overlap => me.paid = al[me.user]
    /\ me.pc \in Sent \union {"profit"} /\ me.tokens <= 0
          => ap[me.user] \/ me.user \in on

(* What a trade has cost.                                                   *)
PaidOK(me) ==
    me.pc = "done" /\ me.by = "payment" =>
        /\ ~me.sell => me.paid <= me.asked
        /\ me.sell /\ ~me.drift => -me.paid >= me.asked

TradeOK(me, q, col, al, ap, on) ==
    SidesOK(me) /\ LimitsOK(me) /\ PricesOK(me, q) /\ OwnOK(me, col, al, ap, on) /\ PaidOK(me)

Event == [outcome : 0 .. 1, tokens : Int]
TradingShape ==
    /\ inventory \in Inventories /\ invested \in Inventories
    /\ collateral \in [Users -> Int] /\ allowance \in [Users -> Int]
    /\ approved = [u \in Users |-> approved[u]]
    /\ held \in [Users -> Inventories]
    /\ unrecorded \in Seq(Event)
    /\ handler \in [Requests -> T!Handler]
    /\ req \in [Requests -> T!Request]

RequestsOK == \A r \in Requests : TradeOK(req[r], inventory, collateral, allowance, approved, sent)

(* Requests of one user that are under way at once know that they overlap.   *)
OverlapsOK ==
    \A r, s \in Requests :
        r # s /\ req[r].user = req[s].user /\ req[r].pc \in Underway /\ req[s].pc \in Underway
        => req[r].overlap

TradingInv == TradingShape /\ RequestsOK /\ OverlapsOK

(* There are no requests and no trades at the start.                         *)
LEMMA TradingStart == Init => TradingInv
<1> SUFFICES ASSUME T!Init
             PROVE  TradingInv
  BY DEF Init
<1>1. PICK none : none = [pc |-> "none", user |-> "none", sell |-> FALSE,
                 by |-> "amount", outcome |-> 0, asked |-> 0, tokens |-> 0, manual |-> 0,
                 limit |-> 0, paid |-> 0, drift |-> FALSE, overlap |-> FALSE]
  OBVIOUS
<1>2. none \in T!Request
  BY <1>1 DEF T!Request, T!NoUser, T!Outcomes
<1>3. none.pc = "none"
  BY <1>1
<1>4. req = [r \in Requests |-> none]
  BY <1>1 DEF T!Init, T!NoUser
<1>5. inventory \in Inventories /\ invested \in Inventories
      /\ invested = inventory
  BY DEF T!Init, T!Outcomes, Inventories
<1>6. collateral \in [Users -> Int] /\ allowance \in [Users -> Int]
      /\ held \in [Users -> Inventories] /\ approved = [u \in Users |-> approved[u]]
  BY DEF T!Init, T!Outcomes, Inventories
<1>7. unrecorded = <<>>
  BY DEF T!Init
<1>8. handler \in [Requests -> T!Handler]
  <2>1. T!Idle \in T!Handler
    BY DEF T!Idle, T!Handler, T!Outcomes
  <2> QED
    BY <2>1 DEF T!Init
<1>9. TradingShape
  <2>1. <<>> \in Seq(Event)
    OBVIOUS
  <2> QED
    BY <1>2, <1>4, <1>5, <1>6, <1>7, <1>8, <2>1 DEF TradingShape
<1>10. TradeOK(none, inventory, collateral, allowance, approved, sent)
  BY <1>3 DEF TradeOK, SidesOK, LimitsOK, PricesOK, OwnOK, PaidOK, Settled, Underway, Sent
<1>11. RequestsOK
  BY <1>4, <1>10 DEF RequestsOK
<1>12. OverlapsOK
  BY <1>3, <1>4 DEF OverlapsOK, Underway
<1> QED
  BY <1>9, <1>11, <1>12 DEF TradingInv

(* The fields of a request.                                                 *)
LEMMA RequestFields ==
    ASSUME NEW me \in T!Request
    PROVE  /\ me.user \in Users \union {"none"} /\ me.sell \in BOOLEAN
           /\ me.by \in {"amount", "payment"} /\ me.outcome \in 0 .. 1
           /\ me.asked \in Nat /\ me.tokens \in Int /\ me.manual \in Int
           /\ me.limit \in Int /\ me.paid \in Int
           /\ me.drift \in BOOLEAN /\ me.overlap \in BOOLEAN
  BY DEF T!Request, T!NoUser, T!Outcomes

(* A request takes a step, and touches nothing but what is its user's; then  *)
(* the others are as they were.                                             *)
LEMMA OneTrades ==
    ASSUME TradingInv, NEW r \in Requests, NEW new \in T!Request,
           req' = [req EXCEPT ![r] = new],
           new.user = req[r].user, new.overlap = req[r].overlap, req[r].pc \in Underway,
           UNCHANGED <<inventory, invested, unrecorded, handler, held, collateral, approved>>,
           allowance' \in [Users -> Int],
           \A u \in Users : u # req[r].user => allowance'[u] = allowance[u],
           \A u \in Users : approved[u] \/ u \in sent => approved[u] \/ u \in sent',
           TradeOK(new, inventory, collateral, allowance', approved, sent')
    PROVE  TradingInv'
<1>0. req \in [Requests -> T!Request] /\ req'[r] = new
      /\ \A s \in Requests : s # r => req'[s] = req[s]
  BY DEF TradingInv, TradingShape
<1>1. TradingShape'
  <2>1. req' \in [Requests -> T!Request]
    BY <1>0
  <2> QED
    BY <2>1 DEF TradingInv, TradingShape
<1>2. OverlapsOK'
  <2> SUFFICES ASSUME NEW a \in Requests, NEW b \in Requests, a # b,
                      req'[a].user = req'[b].user,
                      req'[a].pc \in Underway, req'[b].pc \in Underway
               PROVE  req'[a].overlap
    BY DEF OverlapsOK
  <2>1. req[a].user = req[b].user /\ req[a].pc \in Underway /\ req[b].pc \in Underway
    BY <1>0
  <2>2. req[a].overlap
    BY <2>1 DEF TradingInv, OverlapsOK
  <2> QED
    BY <1>0, <2>2
<1>3. ASSUME NEW s \in Requests
      PROVE  TradeOK(req'[s], inventory', collateral', allowance', approved', sent')
  <2>1. CASE s = r
    BY <1>0, <2>1
  <2>2. CASE s # r
    <3>1. req'[s] = req[s] /\ TradeOK(req[s], inventory, collateral, allowance, approved, sent)
      BY <1>0, <2>2 DEF TradingInv, RequestsOK
    <3>2. PICK me \in T!Request : me = req[s]
      BY <1>0
    <3>3. OwnOK(me, collateral, allowance, approved, sent) /\ SidesOK(me)
      BY <3>1, <3>2 DEF TradeOK
    <3>4. me.pc \in Sent /\ ~me.overlap => me.user # req[r].user
      BY <2>2, <3>2 DEF TradingInv, OverlapsOK, Underway, Sent
    <3>5. me.pc \in Sent \union {"approve", "profit"} => me.user \in Users
      BY <3>3 DEF SidesOK, Sent
    <3>6. OwnOK(me, collateral, allowance', approved, sent')
      BY <3>3, <3>4, <3>5 DEF OwnOK
    <3> QED
      BY <3>1, <3>2, <3>6 DEF TradeOK
  <2> QED
    BY <2>1, <2>2
<1> QED
  BY <1>1, <1>2, <1>3 DEF TradingInv, RequestsOK


(* What the chain asks for a trade now.                                     *)
LEMMA CostOnChain ==
    ASSUME NEW o, NEW n
    PROVE  T!CostAfterFee(o, n) = CostAt(inventory, o, n)
  BY DEF T!CostAfterFee, CostAt

(* The tokens that a payment buys with the recorded inventory, if it buys    *)
(* any, and those that bring it in, if some do.                             *)
LEMMA TokensOfPayments ==
    ASSUME TradingInv, NEW o \in 0 .. 1, NEW p \in Nat \ {0}
    PROVE  /\ T!Purchasable(o, p) \in Nat
           /\ T!Purchasable(o, p) > 0
                 => 5 * T!NetCost(invested, o, T!Purchasable(o, p)) <= 4 * p
           /\ T!Sellable(o, p) # {}
                 => /\ T!Min(T!Sellable(o, p)) \in Nat \ {0}
                    /\ 4 * p <= -3 * T!NetCost(invested, o, -T!Min(T!Sellable(o, p)))
           /\ T!Gross(p) \in Int /\ T!Gross(p) < 0
<1>1. invested \in Inventories
  BY DEF TradingInv, TradingShape
<1>2. PICK depth \in Int : depth = T!Depth(o)
  <2>1. T!Bend = 3
    BY DEF T!Bend
  <2>2. invested[o] \in Int /\ invested[1 - o] \in Int
    BY <1>1 DEF Inventories
  <2> QED
    BY <2>1, <2>2 DEF T!Depth
<1>3. T!Purchasable(o, p) \in Nat /\ (T!Purchasable(o, p) > 0
                 => 5 * T!NetCost(invested, o, T!Purchasable(o, p)) <= 4 * p)
  <2> DEFINE within == {n \in 1 .. p : (4 + 1) * T!NetCost(invested, o, n) <= 4 * p}
  <2>1. T!Purchasable(o, p) = IF within = {} THEN 0 ELSE T!Max(within)
    BY DEF T!Purchasable
  <2>2. within \in SUBSET Nat /\ \A n \in within : n <= p
    OBVIOUS
  <2>3. CASE within = {}
    BY <2>1, <2>3
  <2>4. CASE within # {}
    <3>1. T!Max(within) \in within
      <4> HIDE DEF within
      <4> QED
        BY <2>2, <2>4, MaxIsOne
    <3>2. PICK n \in within : n = T!Purchasable(o, p)
      BY <2>1, <2>4, <3>1
    <3>3. n \in Nat /\ (4 + 1) * T!NetCost(invested, o, n) <= 4 * p
      OBVIOUS
    <3>4. 4 + 1 = 5
      OBVIOUS
    <3> QED
      BY <3>2, <3>3, <3>4
  <2> QED
    BY <2>3, <2>4
<1>4. ASSUME T!Sellable(o, p) # {}
      PROVE  /\ T!Min(T!Sellable(o, p)) \in Nat \ {0}
             /\ 4 * p <= -3 * T!NetCost(invested, o, -T!Min(T!Sellable(o, p)))
  <2>1. T!Sellable(o, p) = {n \in 1 .. depth : 4 * p <= (1 - 4) * T!NetCost(invested, o, -n)}
    BY <1>2 DEF T!Sellable
  <2>2. T!Sellable(o, p) \in SUBSET Nat
    BY <1>2, <2>1
  <2>3. PICK n \in T!Sellable(o, p) : n = T!Min(T!Sellable(o, p))
    BY <1>4, <2>2, MinIsOne
  <2>4. n \in Nat \ {0} /\ 4 * p <= (1 - 4) * T!NetCost(invested, o, -n)
    BY <1>2, <2>1
  <2>5. T!NetCost(invested, o, -n) \in Int
    <3>1. -n \in Int
      BY <2>4
    <3> QED
      BY <1>1, <3>1, PricesArePositive
  <2>6. 4 * p <= -3 * T!NetCost(invested, o, -n)
    BY <2>4, <2>5
  <2> QED
    BY <2>3, <2>4, <2>6, Zenon
<1>5. T!Gross(p) \in Int /\ T!Gross(p) < 0
  <2>1. T!Gross(p) = -((p * 4) \div (4 - 1))
    BY DEF T!Gross
  <2>2. (p * 4) \div 3 >= 1 /\ (p * 4) \div 3 \in Int /\ 4 - 1 = 3
    OBVIOUS
  <2> QED
    BY <2>1, <2>2
<1> QED
  BY <1>3, <1>4, <1>5

(* A request that stops, or goes on and is otherwise what it was.            *)
LEMMA GoesTo ==
    ASSUME NEW me \in T!Request,
           NEW pc \in {"none", "quote", "cost", "approve", "approval", "profit", "estimate",
                       "mine", "done", "refused", "failed"},
           NEW new, new = [me EXCEPT !.pc = pc]
    PROVE  /\ new \in T!Request /\ new.pc = pc
           /\ new.user = me.user /\ new.sell = me.sell /\ new.by = me.by
           /\ new.outcome = me.outcome /\ new.asked = me.asked /\ new.tokens = me.tokens
           /\ new.manual = me.manual /\ new.limit = me.limit /\ new.paid = me.paid
           /\ new.drift = me.drift /\ new.overlap = me.overlap
  BY DEF T!Request

(* A request that is refused or fails leaves what is known of the others.   *)
LEMMA StopKeeps ==
    ASSUME TradingInv, NEW r \in Requests, NEW pc \in {"refused", "failed"},
           req' = [req EXCEPT ![r] = [req[r] EXCEPT !.pc = pc]],
           req[r].pc \in Underway, pc = "failed" => req[r].pc \in Sent,
           UNCHANGED <<inventory, invested, unrecorded, handler, held, collateral, allowance, approved, sent>>
    PROVE  TradingInv'
<1>1. PICK me \in T!Request : me = req[r]
  BY DEF TradingInv, TradingShape
<1>2. PICK new : new = [me EXCEPT !.pc = pc]
  OBVIOUS
<1>3. /\ new \in T!Request /\ new.pc = pc
      /\ new.user = me.user /\ new.sell = me.sell /\ new.by = me.by
      /\ new.asked = me.asked /\ new.tokens = me.tokens
      /\ new.manual = me.manual /\ new.overlap = me.overlap
  BY <1>2, GoesTo
<1>4. SidesOK(me)
  BY <1>1 DEF TradingInv, RequestsOK, TradeOK
<1>5. TradeOK(new, inventory, collateral, allowance', approved, sent')
  BY <1>1, <1>3, <1>4 DEF TradeOK, SidesOK, LimitsOK, PricesOK, OwnOK, PaidOK, Settled, Underway, Sent
<1>6. req' = [req EXCEPT ![r] = new] /\ allowance' \in [Users -> Int]
  BY <1>1, <1>2 DEF TradingInv, TradingShape
<1> QED
  BY <1>1, <1>3, <1>5, <1>6, OneTrades

(* The steps of a request that change no more than it, or what is its        *)
(* user's.                                                                  *)
LEMMA QuoteKeeps ==
    ASSUME TradingInv, NEW r \in Requests, T!Quote(r)
    PROVE  TradingInv'
<1>1. PICK me \in T!Request : me = req[r]
  BY DEF TradingInv, TradingShape
<1>2. me.pc = "quote" /\ SidesOK(me)
  BY <1>1 DEF T!Quote, TradingInv, RequestsOK, TradeOK
<1>3. UNCHANGED <<inventory, invested, unrecorded, handler, held, collateral, allowance, approved, sent>>
  BY DEF T!Quote, T!chain, T!row
<1>4. CASE closedAt \/ T!Unsolvable(r)
  <2>1. req' = [req EXCEPT ![r] = [req[r] EXCEPT !.pc = "refused"]]
    BY <1>4 DEF T!Quote, T!Stop, T!Set
  <2>2. me.pc \in Underway
    BY <1>2 DEF Underway
  <2> QED
    BY <1>1, <1>3, <2>1, <2>2, StopKeeps
<1>5. CASE ~(closedAt \/ T!Unsolvable(r))
  <2>1. /\ me.user \in Users /\ me.asked \in Nat \ {0} /\ me.outcome \in 0 .. 1
        /\ me.sell \in BOOLEAN /\ me.by \in {"amount", "payment"}
    BY <1>2, RequestFields DEF SidesOK
  <2>2. /\ T!Purchasable(me.outcome, me.asked) \in Nat
        /\ T!Purchasable(me.outcome, me.asked) > 0
              => 5 * T!NetCost(invested, me.outcome, T!Purchasable(me.outcome, me.asked))
                     <= 4 * me.asked
        /\ T!Sellable(me.outcome, me.asked) # {}
              => /\ T!Min(T!Sellable(me.outcome, me.asked)) \in Nat \ {0}
                 /\ 4 * me.asked <= -3 * T!NetCost(invested, me.outcome,
                                              -T!Min(T!Sellable(me.outcome, me.asked)))
        /\ T!Gross(me.asked) \in Int /\ T!Gross(me.asked) < 0
    BY <2>1, TokensOfPayments
  <2>3. PICK tokens1 : tokens1 = T!Tokens(r)
    OBVIOUS
  <2>4. me.by = "amount" => tokens1 = IF me.sell THEN -me.asked ELSE me.asked
    <3> SUFFICES ASSUME me.by = "amount"
                 PROVE  tokens1 = IF me.sell THEN -me.asked ELSE me.asked
      OBVIOUS
    <3>1. req[r].by = "amount"
      BY <1>1
    <3>2. T!Tokens(r) = IF req[r].sell THEN -req[r].asked ELSE req[r].asked
      BY <3>1, Zenon DEF T!Tokens
    <3> QED
      BY <1>1, <2>3, <3>2, Zenon
  <2>5. me.by = "payment" /\ ~me.sell => tokens1 = T!Purchasable(me.outcome, me.asked)
    BY <1>1, <2>3 DEF T!Tokens
  <2>6. me.by = "payment" /\ me.sell => tokens1 = -T!Min(T!Sellable(me.outcome, me.asked))
    <3> SUFFICES ASSUME me.by = "payment", me.sell
                 PROVE  tokens1 = -T!Min(T!Sellable(me.outcome, me.asked))
      OBVIOUS
    <3>1. req[r].by # "amount" /\ req[r].sell
      BY <1>1
    <3> QED
      BY <1>1, <2>3, <3>1, Zenon DEF T!Tokens
  <2>7. me.by = "payment" /\ me.sell => T!Sellable(me.outcome, me.asked) # {}
    BY <1>1, <1>5 DEF T!Unsolvable
  <2>8. /\ tokens1 \in Int /\ (tokens1 > 0 => ~me.sell) /\ (tokens1 < 0 => me.sell)
        /\ me.sell => tokens1 < 0
    <3>1. CASE me.by = "amount"
      BY <2>1, <2>4, <3>1
    <3>2. CASE me.by = "payment" /\ ~me.sell
      BY <2>2, <2>5, <3>2
    <3>3. CASE me.by = "payment" /\ me.sell
      BY <2>2, <2>6, <2>7, <3>3
    <3> QED
      BY <2>1, <3>1, <3>2, <3>3
  <2>9. PICK manual : manual = CASE me.by = "amount" -> 0
                                 [] me.by = "payment" /\ me.sell -> T!Gross(me.asked)
                                 [] OTHER -> me.asked
    OBVIOUS
  <2>10. /\ manual \in Int
         /\ me.by = "amount" => manual = 0
         /\ me.by = "payment" /\ ~me.sell => manual = me.asked
         /\ me.by = "payment" /\ me.sell => manual < 0
    <3>1. me.by = "amount" => manual = 0
      <4> SUFFICES ASSUME me.by = "amount"
                   PROVE  manual = 0
        OBVIOUS
      <4> QED
        BY <2>9, Zenon
    <3>2. me.by = "payment" /\ ~me.sell => manual = me.asked
      <4> SUFFICES ASSUME me.by = "payment", ~me.sell
                   PROVE  manual = me.asked
        OBVIOUS
      <4>1. me.by # "amount"
        OBVIOUS
      <4> QED
        BY <2>9, <4>1, Zenon
    <3>3. me.by = "payment" /\ me.sell => manual = T!Gross(me.asked)
      <4> SUFFICES ASSUME me.by = "payment", me.sell
                   PROVE  manual = T!Gross(me.asked)
        OBVIOUS
      <4>1. me.by # "amount"
        OBVIOUS
      <4> QED
        BY <2>9, <4>1, Zenon
    <3> QED
      BY <2>1, <2>2, <3>1, <3>2, <3>3
  <2>11. PICK drift : drift = (me.by = "payment" /\ invested # inventory)
    OBVIOUS
  <2>12. PICK pc \in {"cost", "approval"} : pc = IF tokens1 > 0 THEN "cost" ELSE "approval"
    OBVIOUS
  <2>13. PICK new : new = [me EXCEPT !.tokens = tokens1, !.manual = manual, !.drift = drift,
                                     !.pc = pc]
    OBVIOUS
  <2>14. req' = [req EXCEPT ![r] = new]
    <3>1. req' = [req EXCEPT ![r] = [req[r] EXCEPT
                !.tokens = T!Tokens(r),
                !.manual = CASE req[r].by = "amount" -> 0
                             [] req[r].by = "payment" /\ req[r].sell -> T!Gross(req[r].asked)
                             [] OTHER -> req[r].asked,
                !.drift = req[r].by = "payment" /\ invested # inventory,
                !.pc = IF T!Tokens(r) > 0 THEN "cost" ELSE "approval"]]
      BY <1>5 DEF T!Quote, T!Set
    <3> QED
      BY <1>1, <2>3, <2>9, <2>11, <2>12, <2>13, <3>1
  <2>15. drift \in BOOLEAN
    BY <2>11
  <2>16. /\ new \in T!Request /\ new.pc = pc /\ new.tokens = tokens1 /\ new.manual = manual
         /\ new.user = me.user /\ new.sell = me.sell /\ new.by = me.by
         /\ new.outcome = me.outcome /\ new.asked = me.asked /\ new.overlap = me.overlap
    BY <2>8, <2>10, <2>13, <2>15 DEF T!Request
  <2>17. new.drift = drift
    BY <2>13, <2>15 DEF T!Request
  <2>18. me.by = "payment" /\ ~drift => invested = inventory
    BY <2>11
  <2>19. PricesOK(new, inventory)
    <3> SUFFICES ASSUME ~drift
                 PROVE  PricesOK(new, inventory)
      BY <2>17 DEF PricesOK
    <3>1. me.by = "payment" /\ tokens1 > 0 => 5 * T!NetCost(inventory, me.outcome, tokens1) <= 4 * me.asked
      BY <2>2, <2>5, <2>8, <2>18
    <3>2. me.by = "payment" /\ me.sell => 4 * me.asked <= -3 * T!NetCost(inventory, me.outcome, tokens1)
      BY <2>2, <2>6, <2>7, <2>18
    <3> QED
      BY <2>12, <2>16, <3>1, <3>2 DEF PricesOK, Sent
  <2>20. SidesOK(new)
    BY <2>1, <2>8, <2>10, <2>12, <2>16 DEF SidesOK, Settled, Underway
  <2>21. LimitsOK(new) /\ PaidOK(new) /\ OwnOK(new, collateral, allowance', approved, sent')
    BY <2>12, <2>16 DEF LimitsOK, PaidOK, OwnOK, Sent
  <2>22. me.pc \in Underway /\ allowance' \in [Users -> Int]
    BY <1>2, <1>3 DEF Underway, TradingInv, TradingShape
  <2> QED
    BY <1>1, <1>3, <2>14, <2>16, <2>19, <2>20, <2>21, <2>22, OneTrades DEF TradeOK
<1> QED
  BY <1>4, <1>5

(* A purchase reads its cost, is refused or takes it as its limit, or the   *)
(* payment if that is less.                                                 *)
LEMMA SeeCostKeeps ==
    ASSUME TradingInv, NEW r \in Requests, T!SeeCost(r)
    PROVE  TradingInv'
<1>1. PICK me \in T!Request : me = req[r]
  BY DEF TradingInv, TradingShape
<1>2. me.pc = "cost" /\ SidesOK(me) /\ PricesOK(me, inventory)
  BY <1>1 DEF T!SeeCost, TradingInv, RequestsOK, TradeOK
<1>3. UNCHANGED <<inventory, invested, unrecorded, handler, held, collateral, allowance, approved, sent>>
  BY DEF T!SeeCost, T!chain, T!row
<1>4. me.pc \in Underway /\ allowance' \in [Users -> Int]
  BY <1>2, <1>3 DEF Underway, TradingInv, TradingShape
<1>5. PICK cost : cost = CostAt(inventory, me.outcome, me.tokens)
  OBVIOUS
<1>6. T!CostAfterFee(req[r].outcome, req[r].tokens) = cost
  BY <1>1, <1>5, CostOnChain
<1>7. CASE cost > collateral[me.user]
  <2>1. req' = [req EXCEPT ![r] = [req[r] EXCEPT !.pc = "refused"]]
    BY <1>1, <1>6, <1>7 DEF T!SeeCost, T!Stop, T!Set
  <2> QED
    BY <1>1, <1>3, <1>4, <2>1, StopKeeps
<1>8. CASE ~(cost > collateral[me.user])
  <2>1. PICK limit : limit = T!BuyLimit(cost, me.manual)
    OBVIOUS
  <2>2. req' = [req EXCEPT ![r] = [req[r] EXCEPT !.pc = "approve", !.paid = cost, !.limit = limit]]
    BY <1>1, <1>6, <1>8, <2>1 DEF T!SeeCost, T!Set
  <2>3. /\ me.user \in Users /\ me.asked \in Nat \ {0} /\ me.tokens > 0 /\ ~me.sell
        /\ me.by = "payment" => me.manual = me.asked
        /\ me.by = "amount" => me.manual = 0
    BY <1>2 DEF SidesOK, Settled, Underway
  <2>4. /\ me.by \in {"amount", "payment"} /\ me.outcome \in 0 .. 1 /\ me.tokens \in Int
        /\ me.drift \in BOOLEAN
    BY RequestFields
  <2>5. /\ cost \in Int /\ cost > 0
        /\ me.by = "payment" /\ ~me.drift => cost <= me.asked
    <3>1. inventory \in Inventories
      BY DEF TradingInv, TradingShape
    <3>2. /\ cost \in Int /\ cost > 0
          /\ 5 * T!NetCost(inventory, me.outcome, me.tokens) <= 4 * me.asked => cost <= me.asked
      BY <1>5, <2>3, <2>4, <3>1, CostsAndFees
    <3>3. me.by = "payment" /\ ~me.drift
              => 5 * T!NetCost(inventory, me.outcome, me.tokens) <= 4 * me.asked
      BY <1>2, <2>3 DEF PricesOK
    <3> QED
      BY <3>2, <3>3
  <2>6. /\ limit \in Int /\ limit > 0
        /\ me.by = "payment" => limit <= me.asked
        /\ ~me.drift => limit = cost
    BY <2>1, <2>3, <2>4, <2>5 DEF T!BuyLimit
  <2>7. PICK new : new = [me EXCEPT !.pc = "approve", !.paid = cost, !.limit = limit]
    OBVIOUS
  <2>8. /\ new \in T!Request /\ new.pc = "approve" /\ new.paid = cost /\ new.limit = limit
        /\ new.user = me.user /\ new.sell = me.sell /\ new.by = me.by
        /\ new.outcome = me.outcome /\ new.asked = me.asked /\ new.tokens = me.tokens
        /\ new.manual = me.manual /\ new.drift = me.drift /\ new.overlap = me.overlap
    BY <2>5, <2>6, <2>7 DEF T!Request
  <2>9. SidesOK(new) /\ PaidOK(new)
    BY <2>3, <2>4, <2>8 DEF SidesOK, PaidOK, Settled, Underway
  <2>10. LimitsOK(new)
    BY <2>6, <2>8 DEF LimitsOK, Sent
  <2>11. PricesOK(new, inventory)
    <3> SUFFICES ASSUME ~me.drift
                 PROVE  PricesOK(new, inventory)
      BY <2>8 DEF PricesOK
    <3>1. me.by = "payment" => 5 * T!NetCost(inventory, me.outcome, me.tokens) <= 4 * me.asked
      BY <1>2, <2>3 DEF PricesOK
    <3>2. new.paid = CostAt(inventory, new.outcome, new.tokens) /\ new.limit = new.paid
      BY <1>5, <2>6, <2>8
    <3> QED
      BY <2>8, <3>1, <3>2, <2>3 DEF PricesOK, Sent
  <2>12. OwnOK(new, collateral, allowance', approved, sent')
    <3>1. collateral[me.user] \in Int
      BY <2>3 DEF TradingInv, TradingShape
    <3>2. cost <= collateral[me.user]
      BY <1>8, <2>5, <3>1
    <3> QED
      BY <2>3, <2>8, <3>2 DEF OwnOK, Sent
  <2>13. req' = [req EXCEPT ![r] = new]
    BY <1>1, <2>2, <2>7
  <2> QED
    BY <1>1, <1>3, <1>4, <2>8, <2>9, <2>10, <2>11, <2>12, <2>13, OneTrades DEF TradeOK
<1> QED
  BY <1>7, <1>8

(* The purchase's approval replaces the allowance, the sale's is sent unless *)
(* the user has given it; what a sale may bring in is read.                  *)
LEMMA ApproveKeeps ==
    ASSUME TradingInv, NEW r \in Requests, T!Approve(r)
    PROVE  TradingInv'
<1>1. PICK me \in T!Request : me = req[r]
  BY DEF TradingInv, TradingShape
<1>2. /\ me.pc = "approve" /\ SidesOK(me) /\ LimitsOK(me) /\ PricesOK(me, inventory)
      /\ OwnOK(me, collateral, allowance, approved, sent)
  BY <1>1 DEF T!Approve, TradingInv, RequestsOK, TradeOK
<1>3. /\ UNCHANGED <<inventory, invested, unrecorded, handler, held, collateral, approved, sent>>
      /\ allowance' = [allowance EXCEPT ![me.user] = me.paid]
  BY <1>1 DEF T!Approve, T!row
<1>4. /\ me.user \in Users /\ me.tokens > 0 /\ me.paid \in Int /\ me.tokens \in Int
      /\ ~(me.tokens < 0) /\ ~(me.tokens <= 0) /\ ~me.sell
  BY <1>2, RequestFields DEF SidesOK, Settled, Underway
<1>5. /\ allowance' \in [Users -> Int] /\ allowance'[me.user] = me.paid
      /\ \A u \in Users : u # me.user => allowance'[u] = allowance[u]
  <2>1. allowance \in [Users -> Int]
    BY DEF TradingInv, TradingShape
  <2> QED
    BY <1>3, <1>4, <2>1
<1>6. PICK new : new = [me EXCEPT !.pc = "estimate"]
  OBVIOUS
<1>7. /\ new \in T!Request /\ new.pc = "estimate"
      /\ new.user = me.user /\ new.sell = me.sell /\ new.by = me.by
      /\ new.outcome = me.outcome /\ new.asked = me.asked /\ new.tokens = me.tokens
      /\ new.manual = me.manual /\ new.limit = me.limit /\ new.paid = me.paid
      /\ new.drift = me.drift /\ new.overlap = me.overlap
  BY <1>6, GoesTo
<1>8. req' = [req EXCEPT ![r] = new]
  BY <1>1, <1>6 DEF T!Approve, T!Stop, T!Set
<1>9. SidesOK(new) /\ PaidOK(new)
  BY <1>2, <1>7 DEF SidesOK, PaidOK, Settled, Underway
<1>10. LimitsOK(new)
  BY <1>2, <1>4, <1>7 DEF LimitsOK, Sent
<1>11. PricesOK(new, inventory)
  BY <1>2, <1>4, <1>7 DEF PricesOK, Sent
<1>12. OwnOK(new, collateral, allowance', approved, sent')
  BY <1>2, <1>4, <1>5, <1>7 DEF OwnOK, Sent
<1>13. me.pc \in Underway
  BY <1>2 DEF Underway
<1> QED
  BY <1>1, <1>3, <1>5, <1>7, <1>8, <1>9, <1>10, <1>11, <1>12, <1>13, OneTrades DEF TradeOK

(* A sale finds its approval or sends one.                                  *)
LEMMA LookApprovedKeeps ==
    ASSUME TradingInv, NEW r \in Requests, T!LookApproved(r)
    PROVE  TradingInv'
<1>1. PICK me \in T!Request : me = req[r]
  BY DEF TradingInv, TradingShape
<1>2. /\ me.pc = "approval" /\ SidesOK(me) /\ PricesOK(me, inventory)
  BY <1>1 DEF T!LookApproved, TradingInv, RequestsOK, TradeOK
<1>3. /\ UNCHANGED <<inventory, invested, unrecorded, handler, held, collateral, allowance, approved>>
      /\ sent' = IF approved[me.user] THEN sent ELSE sent \union {me.user}
  BY <1>1 DEF T!LookApproved, T!chain, T!row
<1>4. me.user \in Users /\ me.tokens <= 0 /\ me.tokens \in Int /\ me.paid \in Int
      /\ allowance' \in [Users -> Int]
  BY <1>2, <1>3, RequestFields DEF SidesOK, TradingInv, TradingShape
<1>5. PICK new : new = [me EXCEPT !.pc = "profit"]
  OBVIOUS
<1>6. /\ new \in T!Request /\ new.pc = "profit"
      /\ new.user = me.user /\ new.sell = me.sell /\ new.by = me.by
      /\ new.outcome = me.outcome /\ new.asked = me.asked /\ new.tokens = me.tokens
      /\ new.manual = me.manual /\ new.limit = me.limit /\ new.paid = me.paid
      /\ new.drift = me.drift /\ new.overlap = me.overlap
  BY <1>5, GoesTo
<1>7. req' = [req EXCEPT ![r] = new]
  BY <1>1, <1>5 DEF T!LookApproved, T!Stop, T!Set
<1>8. SidesOK(new) /\ PaidOK(new) /\ LimitsOK(new)
  BY <1>2, <1>6 DEF SidesOK, PaidOK, LimitsOK, Sent, Settled, Underway
<1>9. PricesOK(new, inventory)
  BY <1>2, <1>6 DEF PricesOK, Sent
<1>10. OwnOK(new, collateral, allowance', approved, sent')
  BY <1>3, <1>6 DEF OwnOK, Sent
<1>11. me.pc \in Underway /\ \A u \in Users : approved[u] \/ u \in sent => approved[u] \/ u \in sent'
  BY <1>2, <1>3 DEF Underway
<1> QED
  BY <1>1, <1>3, <1>4, <1>6, <1>7, <1>8, <1>9, <1>10, <1>11, OneTrades DEF TradeOK

(* The limit of a sale is one that any sale keeps.                          *)
LEMMA QuoteSaleKeeps ==
    ASSUME TradingInv, NEW r \in Requests, T!QuoteSale(r)
    PROVE  TradingInv'
<1>1. PICK me \in T!Request : me = req[r]
  BY DEF TradingInv, TradingShape
<1>2. /\ me.pc = "profit" /\ SidesOK(me) /\ PricesOK(me, inventory)
      /\ OwnOK(me, collateral, allowance, approved, sent)
  BY <1>1 DEF T!QuoteSale, TradingInv, RequestsOK, TradeOK
<1>3. /\ UNCHANGED <<inventory, invested, unrecorded, handler, held, collateral, allowance, approved, sent>>
      /\ allowance' \in [Users -> Int]
  BY DEF T!QuoteSale, T!chain, T!row, TradingInv, TradingShape
<1>4. PICK cost \in {CostAt(inventory, me.outcome, me.tokens), 0} :
          req' = [req EXCEPT ![r] = [req[r] EXCEPT !.pc = "estimate",
                                                   !.limit = T!SellLimit(cost, me.manual)]]
  BY <1>1, CostOnChain DEF T!QuoteSale, T!Set
<1>5. /\ me.by \in {"amount", "payment"} /\ me.outcome \in 0 .. 1 /\ me.tokens \in Int
      /\ me.manual \in Int /\ me.tokens <= 0 /\ (me.tokens < 0 => me.sell)
      /\ me.by = "payment" /\ me.sell => me.manual < 0
      /\ me.by = "amount" => me.manual = 0
  BY <1>2, RequestFields DEF SidesOK, Settled, Underway
<1>6. cost \in Int /\ cost <= 0
  <2>1. inventory \in Inventories
    BY DEF TradingInv, TradingShape
  <2>2. PICK c \in Int : c = CostAt(inventory, me.outcome, me.tokens) /\ c <= 0
    BY <1>5, <2>1, CostsAndFees
  <2> QED
    BY <1>4, <2>2
<1>7. PICK limit \in Int : limit = T!SellLimit(cost, me.manual) /\ (me.tokens < 0 => limit >= 0)
  <2>1. T!SellLimit(cost, me.manual) = -(IF me.manual # 0 THEN me.manual ELSE cost)
    BY DEF T!SellLimit
  <2>2. me.tokens < 0 => me.manual <= 0
    BY <1>5
  <2> QED
    BY <1>5, <1>6, <2>1, <2>2
<1>8. PICK new : new = [me EXCEPT !.pc = "estimate", !.limit = limit]
  OBVIOUS
<1>9. /\ new \in T!Request /\ new.pc = "estimate" /\ new.limit = limit
      /\ new.user = me.user /\ new.sell = me.sell /\ new.by = me.by
      /\ new.outcome = me.outcome /\ new.asked = me.asked /\ new.tokens = me.tokens
      /\ new.manual = me.manual /\ new.paid = me.paid
      /\ new.drift = me.drift /\ new.overlap = me.overlap
  BY <1>7, <1>8 DEF T!Request
<1>10. req' = [req EXCEPT ![r] = new]
  BY <1>1, <1>4, <1>7, <1>8
<1>11. SidesOK(new) /\ PaidOK(new)
  BY <1>2, <1>9 DEF SidesOK, PaidOK, Settled, Underway
<1>12. LimitsOK(new)
  BY <1>5, <1>7, <1>9 DEF LimitsOK, Sent
<1>13. PricesOK(new, inventory)
  BY <1>2, <1>5, <1>9 DEF PricesOK, Sent
<1>14. OwnOK(new, collateral, allowance', approved, sent')
  BY <1>2, <1>3, <1>5, <1>9 DEF OwnOK, Sent
<1>15. me.pc \in Underway
  BY <1>2 DEF Underway
<1> QED
  BY <1>1, <1>3, <1>9, <1>10, <1>11, <1>12, <1>13, <1>14, <1>15, OneTrades DEF TradeOK

(* A purchase whose view fails stops.                                       *)
LEMMA FailViewKeeps ==
    ASSUME TradingInv, NEW r \in Requests, T!FailView(r)
    PROVE  TradingInv'
<1>1. /\ req' = [req EXCEPT ![r] = [req[r] EXCEPT !.pc = "refused"]] /\ req[r].pc = "cost"
      /\ UNCHANGED <<inventory, invested, unrecorded, handler, held, collateral, allowance, approved, sent>>
  BY DEF T!FailView, T!Stop, T!Set, T!chain, T!row
<1>2. req[r].pc \in Underway
  BY <1>1 DEF Underway
<1> QED
  BY <1>1, <1>2, StopKeeps

(* The estimate of the gas stops a trade that would revert, or changes      *)
(* nothing.                                                                 *)
LEMMA EstimateKeeps ==
    ASSUME TradingInv, NEW r \in Requests, T!Estimate(r)
    PROVE  TradingInv'
<1>1. PICK me \in T!Request : me = req[r]
  BY DEF TradingInv, TradingShape
<1>2. /\ me.pc = "estimate" /\ me.pc \in Underway /\ me.pc \in Sent
      /\ TradeOK(me, inventory, collateral, allowance, approved, sent)
  BY <1>1 DEF T!Estimate, TradingInv, RequestsOK, Underway, Sent
<1>3. /\ UNCHANGED <<inventory, invested, unrecorded, handler, held, collateral, allowance, approved, sent>>
      /\ allowance' \in [Users -> Int]
  BY DEF T!Estimate, T!chain, T!row, TradingInv, TradingShape
<1>4. CASE ~T!Accepts(req[r])
  <2>1. req' = [req EXCEPT ![r] = [req[r] EXCEPT !.pc = "failed"]]
    BY <1>4 DEF T!Estimate, T!Stop, T!Set
  <2> QED
    BY <1>1, <1>2, <1>3, <2>1, StopKeeps
<1>5. CASE T!Accepts(req[r])
  <2>1. PICK new : new = [me EXCEPT !.pc = "mine"]
    OBVIOUS
  <2>2. /\ new \in T!Request /\ new.pc = "mine"
        /\ new.user = me.user /\ new.sell = me.sell /\ new.by = me.by
        /\ new.outcome = me.outcome /\ new.asked = me.asked /\ new.tokens = me.tokens
        /\ new.manual = me.manual /\ new.limit = me.limit /\ new.paid = me.paid
        /\ new.drift = me.drift /\ new.overlap = me.overlap
    BY <2>1, GoesTo
  <2>3. req' = [req EXCEPT ![r] = new]
    BY <1>1, <1>5, <2>1 DEF T!Estimate, T!Stop, T!Set
  <2>4. SidesOK(new) /\ LimitsOK(new) /\ PaidOK(new)
    BY <1>2, <2>2 DEF TradeOK, SidesOK, LimitsOK, PaidOK, Settled, Underway, Sent
  <2>5. PricesOK(new, inventory)
    BY <1>2, <2>2 DEF TradeOK, PricesOK, Sent
  <2>6. OwnOK(new, collateral, allowance', approved, sent')
    BY <1>2, <1>3, <2>2 DEF TradeOK, OwnOK, Sent
  <2> QED
    BY <1>1, <1>2, <1>3, <2>2, <2>3, <2>4, <2>5, <2>6, OneTrades DEF TradeOK
<1> QED
  BY <1>4, <1>5

(* The trade of a request is mined, or reverts; the others of its user have  *)
(* seen that they overlap, and the others' prices have moved.               *)
LEMMA MineKeeps ==
    ASSUME TradingInv, NEW r \in Requests, T!Mine(r)
    PROVE  TradingInv'
<1>1. PICK me \in T!Request : me = req[r]
  BY DEF TradingInv, TradingShape
<1>2. /\ me.pc = "mine" /\ me.pc \in Underway /\ me.pc \in Sent /\ sent' = sent
      /\ TradeOK(me, inventory, collateral, allowance, approved, sent)
  BY <1>1 DEF T!Mine, TradingInv, RequestsOK, Underway, Sent
<1>3. PICK cost : cost = CostAt(inventory, me.outcome, me.tokens)
  OBVIOUS
<1>4. T!CostAfterFee(req[r].outcome, req[r].tokens) = cost
  BY <1>1, <1>3, CostOnChain
<1>5. CASE ~T!Accepts(req[r])
  <2>1. /\ req' = [req EXCEPT ![r] = [req[r] EXCEPT !.pc = "failed"]]
        /\ UNCHANGED <<inventory, invested, unrecorded, handler, held, collateral, allowance, approved>>
    BY <1>5 DEF T!Mine, T!Stop, T!Set, T!chain, T!row
  <2> QED
    BY <1>1, <1>2, <2>1, StopKeeps
<1>6. CASE T!Accepts(req[r])
  <2>1. /\ inventory' = [inventory EXCEPT ![me.outcome] = @ + me.tokens]
        /\ collateral' = [collateral EXCEPT ![me.user] = @ - cost]
        /\ allowance' = [allowance EXCEPT ![me.user] = @ - (IF me.tokens > 0 THEN cost ELSE 0)]
        /\ held' = [held EXCEPT ![me.user][me.outcome] = @ + me.tokens]
        /\ unrecorded' = Append(unrecorded, [outcome |-> me.outcome, tokens |-> me.tokens])
        /\ UNCHANGED <<approved, invested, handler>>
    BY <1>1, <1>4, <1>6 DEF T!Mine
  <2>2. req' = [i \in Requests |-> IF i = r THEN [me EXCEPT !.pc = "done", !.paid = cost]
                                          ELSE [req[i] EXCEPT !.drift = TRUE]]
    BY <1>1, <1>4, <1>6 DEF T!Mine
  <2>3. /\ me.user \in Users /\ me.sell \in BOOLEAN /\ me.by \in {"amount", "payment"}
        /\ me.outcome \in 0 .. 1 /\ me.asked \in Nat \ {0} /\ me.tokens \in Int
        /\ me.limit \in Int /\ me.drift \in BOOLEAN
        /\ me.tokens > 0 => ~me.sell /\ me.limit > 0 /\ (me.by = "payment" => me.limit <= me.asked)
        /\ me.tokens < 0 => me.sell
    BY <1>2, RequestFields DEF TradeOK, SidesOK, LimitsOK, Settled, Underway, Sent
  <2>4. /\ cost \in Int /\ (me.tokens = 0 => cost = 0)
        /\ 4 * me.asked <= -3 * T!NetCost(inventory, me.outcome, me.tokens) => -cost >= me.asked
    <3>1. inventory \in Inventories
      BY DEF TradingInv, TradingShape
    <3> QED
      BY <1>3, <2>3, <3>1, CostsAndFees
  <2>5. me.limit # 0 => cost <= me.limit
    BY <1>1, <1>4, <1>6 DEF T!Accepts
  <2>6. PICK new : new = [me EXCEPT !.pc = "done", !.paid = cost]
    OBVIOUS
  <2>7. /\ new \in T!Request /\ new.pc = "done" /\ new.paid = cost
        /\ new.user = me.user /\ new.sell = me.sell /\ new.by = me.by
        /\ new.asked = me.asked /\ new.tokens = me.tokens
        /\ new.manual = me.manual /\ new.drift = me.drift
    BY <2>4, <2>6 DEF T!Request
  <2>8. TradeOK(new, inventory', collateral', allowance', approved', sent')
    <3>1. SidesOK(new)
      BY <1>2, <2>7 DEF TradeOK, SidesOK, Settled, Underway
    <3>2. LimitsOK(new) /\ PricesOK(new, inventory') /\ OwnOK(new, collateral', allowance', approved', sent')
      BY <2>7 DEF LimitsOK, PricesOK, OwnOK, Sent
    <3>3. me.by = "payment" /\ ~me.sell => cost <= me.asked
      <4> SUFFICES ASSUME me.by = "payment", ~me.sell
                   PROVE  cost <= me.asked
        OBVIOUS
      <4>1. CASE me.tokens > 0
        BY <2>3, <2>4, <2>5, <4>1
      <4>2. CASE me.tokens = 0
        BY <2>3, <2>4, <4>2
      <4> QED
        BY <2>3, <4>1, <4>2
    <3>4. me.by = "payment" /\ me.sell /\ ~me.drift => -cost >= me.asked
      BY <1>2, <2>4 DEF TradeOK, PricesOK
    <3>5. PaidOK(new)
      BY <2>7, <3>3, <3>4 DEF PaidOK
    <3> QED
      BY <3>1, <3>2, <3>5 DEF TradeOK
  <2>9. ASSUME NEW s \in Requests, s # r
        PROVE  /\ req'[s] \in T!Request
               /\ req'[s].user = req[s].user /\ req'[s].pc = req[s].pc
               /\ req'[s].overlap = req[s].overlap
               /\ TradeOK(req'[s], inventory', collateral', allowance', approved', sent')
    <3>1. PICK old \in T!Request : old = req[s]
      BY DEF TradingInv, TradingShape
    <3>2. PICK moved : moved = [old EXCEPT !.drift = TRUE]
      OBVIOUS
    <3>3. req'[s] = moved
      BY <2>2, <2>9, <3>1, <3>2
    <3>4. /\ moved \in T!Request /\ moved.drift = TRUE /\ moved.pc = old.pc
          /\ moved.user = old.user /\ moved.sell = old.sell /\ moved.by = old.by
          /\ moved.asked = old.asked /\ moved.tokens = old.tokens
          /\ moved.manual = old.manual /\ moved.limit = old.limit /\ moved.paid = old.paid
          /\ moved.overlap = old.overlap
      BY <3>2 DEF T!Request
    <3>5. TradeOK(old, inventory, collateral, allowance, approved, sent)
      BY <3>1 DEF TradingInv, RequestsOK
    <3>6. SidesOK(moved) /\ LimitsOK(moved) /\ PaidOK(moved)
      BY <3>4, <3>5 DEF TradeOK, SidesOK, LimitsOK, PaidOK
    <3>7. PricesOK(moved, inventory')
      BY <3>4 DEF PricesOK
    <3>8. old.user = me.user /\ old.pc \in Underway => old.overlap
      BY <1>1, <1>2, <2>9, <3>1 DEF TradingInv, OverlapsOK
    <3>9. old.pc # "none" => old.user \in Users
      BY <3>5 DEF TradeOK, SidesOK
    <3>10. old.pc \in Underway /\ old.user # me.user =>
              /\ collateral'[old.user] = collateral[old.user]
              /\ allowance'[old.user] = allowance[old.user]
      <4>1. collateral \in [Users -> Int] /\ allowance \in [Users -> Int]
        BY DEF TradingInv, TradingShape
      <4>2. old.pc \in Underway => old.user \in Users
        BY <3>9 DEF Underway
      <4> QED
        BY <2>1, <2>3, <4>1, <4>2
    <3>11. OwnOK(moved, collateral', allowance', approved', sent')
      <4>1. OwnOK(old, collateral, allowance, approved, sent)
        BY <3>5 DEF TradeOK
      <4>2. old.pc \in Sent \union {"approve"} => old.pc \in Underway
        BY DEF Sent, Underway
      <4>3. approved' = approved /\ sent' = sent
        BY <1>2, <2>1
      <4> QED
        BY <3>4, <3>8, <3>10, <4>1, <4>2, <4>3 DEF OwnOK
    <3> QED
      BY <3>1, <3>3, <3>4, <3>6, <3>7, <3>11 DEF TradeOK
  <2>10. req'[r] = new
    BY <2>2, <2>6
  <2>11. RequestsOK'
    <3>1. ASSUME NEW s \in Requests
          PROVE  TradeOK(req'[s], inventory', collateral', allowance', approved', sent')
      <4>1. CASE s = r
        BY <2>8, <2>10, <4>1
      <4>2. CASE s # r
        BY <2>9, <4>2
      <4> QED
        BY <4>1, <4>2
    <3> QED
      BY <3>1 DEF RequestsOK
  <2>12. OverlapsOK'
    <3> SUFFICES ASSUME NEW a \in Requests, NEW b \in Requests, a # b,
                        req'[a].user = req'[b].user,
                        req'[a].pc \in Underway, req'[b].pc \in Underway
                 PROVE  req'[a].overlap
      BY DEF OverlapsOK
    <3>1. a # r /\ b # r
      BY <2>7, <2>10 DEF Underway
    <3>2. req[a].overlap
      BY <2>9, <3>1 DEF TradingInv, OverlapsOK
    <3> QED
      BY <2>9, <3>1, <3>2
  <2>13. TradingShape'
    <3>1. /\ inventory \in Inventories /\ invested \in Inventories /\ held \in [Users -> Inventories]
          /\ collateral \in [Users -> Int] /\ allowance \in [Users -> Int]
          /\ approved = [u \in Users |-> approved[u]]
          /\ unrecorded \in Seq(Event) /\ handler \in [Requests -> T!Handler]
      BY DEF TradingInv, TradingShape
    <3>2. inventory' \in Inventories
      <4>1. inventory[me.outcome] + me.tokens \in Int
        BY <2>3, <3>1 DEF Inventories
      <4> QED
        BY <2>1, <3>1, <4>1 DEF Inventories
    <3>3. collateral' \in [Users -> Int]
      <4>1. collateral[me.user] - cost \in Int
        BY <2>3, <2>4, <3>1
      <4> QED
        BY <2>1, <3>1, <4>1
    <3>4. allowance' \in [Users -> Int]
      <4>1. allowance[me.user] - (IF me.tokens > 0 THEN cost ELSE 0) \in Int
        BY <2>3, <2>4, <3>1
      <4> QED
        BY <2>1, <3>1, <4>1
    <3>5. held' \in [Users -> Inventories]
      <4>1. PICK own \in Inventories : own = held[me.user]
        BY <2>3, <3>1
      <4>2. PICK had : had = [own EXCEPT ![me.outcome] = own[me.outcome] + me.tokens]
        OBVIOUS
      <4>3. own[me.outcome] + me.tokens \in Int
        BY <2>3 DEF Inventories
      <4>4. had \in Inventories
        BY <4>2, <4>3 DEF Inventories
      <4>5. held' = [held EXCEPT ![me.user] = had]
        BY <2>1, <4>1, <4>2
      <4> QED
        BY <3>1, <4>4, <4>5
    <3>6. PICK e \in Event : e = [outcome |-> me.outcome, tokens |-> me.tokens]
      BY <2>3 DEF Event
    <3>8. unrecorded' = Append(unrecorded, e)
      BY <2>1, <3>6
    <3>9. unrecorded' \in Seq(Event)
      BY <3>1, <3>8
    <3>14. req' \in [Requests -> T!Request]
      <4>1. \A s \in Requests : req'[s] \in T!Request
        BY <2>7, <2>9, <2>10
      <4>2. req' = [s \in Requests |-> req'[s]]
        BY <2>2
      <4> QED
        BY <4>1, <4>2
    <3> QED
      BY <2>1, <3>1, <3>2, <3>3, <3>4, <3>5, <3>9, <3>14 DEF TradingShape
  <2> QED
    BY <2>11, <2>12, <2>13 DEF TradingInv
<1> QED
  BY <1>5, <1>6

(* A new request tells the others of its user that they overlap.             *)
LEMMA AskKeeps ==
    ASSUME TradingInv, NEW r \in Requests, NEW u \in Users, NEW sell \in BOOLEAN,
           NEW by \in {"amount", "payment"}, NEW o \in 0 .. 1, NEW n \in Nat \ {0},
           T!Ask(r, u, sell, by, o, n)
    PROVE  TradingInv'
<1> DEFINE active == T!Active(u) # {}
<1>1. PICK me \in T!Request : me = req[r]
  BY DEF TradingInv, TradingShape
<1>2. PICK pc \in {"refused", "quote"} :
          pc = IF sell /\ by = "amount" /\ n > held[u][o] THEN "refused" ELSE "quote"
  OBVIOUS
<1>3. PICK lap \in BOOLEAN : lap = (T!Active(u) # {})
  OBVIOUS
<1>4. PICK asks : asks = [me EXCEPT !.pc = pc, !.user = u, !.sell = sell, !.by = by,
                                    !.outcome = o, !.asked = n]
  OBVIOUS
<1>5. PICK new : new = [asks EXCEPT !.overlap = lap]
  OBVIOUS
<1>6. asks \in T!Request /\ asks.pc = pc /\ asks.user = u /\ asks.asked = n
  BY <1>4 DEF T!Request, T!Outcomes
<1>7. new \in T!Request /\ new.pc = pc /\ new.user = u /\ new.asked = n /\ new.overlap = lap
  BY <1>5, <1>6 DEF T!Request
<1>8. req' = [i \in Requests |-> IF i = r THEN new
                                 ELSE [req[i] EXCEPT !.overlap = @ \/ i \in T!Active(u)]]
  BY <1>1, <1>2, <1>3, <1>4, <1>5 DEF T!Ask
<1>9. UNCHANGED <<inventory, invested, unrecorded, handler, held, collateral, allowance, approved, sent>>
  BY DEF T!Ask, T!chain, T!row
<1>10. ASSUME NEW s \in Requests, s # r
       PROVE  /\ req'[s] \in T!Request /\ req'[s].user = req[s].user /\ req'[s].pc = req[s].pc
              /\ req'[s].overlap = (req[s].overlap \/ s \in T!Active(u))
              /\ TradeOK(req'[s], inventory', collateral', allowance', approved', sent')
  <2>1. PICK old \in T!Request : old = req[s]
    BY DEF TradingInv, TradingShape
  <2>2. PICK laps \in BOOLEAN : laps = (old.overlap \/ s \in T!Active(u))
    OBVIOUS
  <2>3. PICK now : now = [old EXCEPT !.overlap = laps]
    OBVIOUS
  <2>4. req'[s] = now
    BY <1>8, <1>10, <2>1, <2>2, <2>3
  <2>5. /\ now \in T!Request /\ now.overlap = laps /\ now.pc = old.pc
        /\ now.user = old.user /\ now.sell = old.sell /\ now.by = old.by
        /\ now.outcome = old.outcome
        /\ now.asked = old.asked /\ now.tokens = old.tokens
        /\ now.manual = old.manual /\ now.limit = old.limit /\ now.paid = old.paid
        /\ now.drift = old.drift
    BY <2>3 DEF T!Request
  <2>6. TradeOK(old, inventory, collateral, allowance, approved, sent)
    BY <2>1 DEF TradingInv, RequestsOK
  <2>7. SidesOK(now) /\ LimitsOK(now) /\ PaidOK(now)
    BY <2>5, <2>6 DEF TradeOK, SidesOK, LimitsOK, PaidOK
  <2>8. PricesOK(now, inventory)
    BY <2>5, <2>6 DEF TradeOK, PricesOK
  <2>9. OwnOK(now, collateral, allowance, approved, sent)
    BY <2>2, <2>5, <2>6 DEF TradeOK, OwnOK
  <2>10. TradeOK(now, inventory', collateral', allowance', approved', sent')
    BY <1>9, <2>7, <2>8, <2>9 DEF TradeOK
  <2> QED
    BY <2>1, <2>2, <2>4, <2>5, <2>10
<1>11. req'[r] = new
  BY <1>8
<1>12. TradeOK(new, inventory', collateral', allowance', approved', sent')
  BY <1>7 DEF TradeOK, SidesOK, LimitsOK, PricesOK, OwnOK, PaidOK, Settled, Underway, Sent
<1>13. TradingShape'
  <2>1. \A s \in Requests : req'[s] \in T!Request
    BY <1>7, <1>10, <1>11
  <2>2. req' = [s \in Requests |-> req'[s]]
    BY <1>8
  <2>3. req' \in [Requests -> T!Request]
    BY <2>1, <2>2
  <2> QED
    BY <1>9, <2>3 DEF TradingInv, TradingShape
<1>14. RequestsOK'
  <2>1. ASSUME NEW s \in Requests
        PROVE  TradeOK(req'[s], inventory', collateral', allowance', approved', sent')
    <3>1. CASE s = r
      BY <1>11, <1>12, <3>1
    <3>2. CASE s # r
      BY <1>10, <3>2
    <3> QED
      BY <3>1, <3>2
  <2> QED
    BY <2>1 DEF RequestsOK
<1>15. OverlapsOK'
  <2> SUFFICES ASSUME NEW a \in Requests, NEW b \in Requests, a # b,
                      req'[a].user = req'[b].user,
                      req'[a].pc \in Underway, req'[b].pc \in Underway
               PROVE  req'[a].overlap
    BY DEF OverlapsOK
  <2>1. ASSUME NEW s \in Requests, req[s].user = u, req[s].pc \in Underway
        PROVE  s \in T!Active(u)
    BY <2>1 DEF T!Active, T!Finished, Underway
  <2>2. CASE a = r
    <3>1. req[b].user = u /\ req[b].pc \in Underway
      BY <1>7, <1>10, <1>11, <2>2
    <3>2. lap
      BY <1>3, <2>1, <3>1
    <3> QED
      BY <1>7, <1>11, <2>2, <3>2
  <2>3. CASE a # r /\ b = r
    <3>1. req[a].user = u /\ req[a].pc \in Underway
      BY <1>7, <1>10, <1>11, <2>3
    <3>2. a \in T!Active(u)
      BY <2>1, <3>1
    <3> QED
      BY <1>10, <2>3, <3>2
  <2>4. CASE a # r /\ b # r
    <3>1. req[a].user = req[b].user /\ req[a].pc \in Underway /\ req[b].pc \in Underway
      BY <1>10, <2>4
    <3>2. req[a].overlap
      BY <3>1 DEF TradingInv, OverlapsOK
    <3> QED
      BY <1>10, <2>4, <3>2
  <2> QED
    BY <2>2, <2>3, <2>4
<1> QED
  BY <1>13, <1>14, <1>15 DEF TradingInv

(* The approval sent is mined.                                              *)
LEMMA MineApprovalKeeps ==
    ASSUME TradingInv, NEW u \in Users, T!MineApproval(u)
    PROVE  TradingInv'
<1>1. /\ UNCHANGED <<inventory, invested, unrecorded, handler, held, collateral, allowance, req>>
      /\ approved' = [approved EXCEPT ![u] = TRUE] /\ sent' = sent \ {u}
  BY DEF T!MineApproval, T!row
<1>2. approved = [v \in Users |-> approved[v]]
  BY DEF TradingInv, TradingShape
<1>3. approved' = [v \in Users |-> approved'[v]]
  BY <1>1, <1>2
<1>4. \A v \in Users : approved[v] \/ v \in sent => approved'[v] \/ v \in sent'
  BY <1>1, <1>2
<1>5. ASSUME NEW s \in Requests
      PROVE  TradeOK(req[s], inventory, collateral, allowance, approved', sent')
  <2>1. PICK me : me = req[s]
    OBVIOUS
  <2>2. TradeOK(me, inventory, collateral, allowance, approved, sent)
    BY <2>1 DEF TradingInv, RequestsOK
  <2>3. me.pc \in Sent \union {"profit"} => me.user \in Users
    BY <2>2 DEF TradeOK, SidesOK, Sent
  <2>4. OwnOK(me, collateral, allowance, approved', sent')
    BY <1>4, <2>2, <2>3 DEF TradeOK, OwnOK
  <2> QED
    BY <2>1, <2>2, <2>4 DEF TradeOK
<1>6. RequestsOK'
  BY <1>1, <1>5 DEF RequestsOK
<1>7. TradingShape'
  BY <1>1, <1>3 DEF TradingInv, TradingShape
<1>8. OverlapsOK'
  BY <1>1 DEF TradingInv, OverlapsOK
<1> QED
  BY <1>6, <1>7, <1>8 DEF TradingInv

(* The handlers of trade events change what is recorded, and nothing that    *)
(* the requests under way depend on.                                        *)
LEMMA RecordsKeep ==
    ASSUME TradingInv,
           UNCHANGED <<inventory, held, collateral, allowance, approved, sent, req>>,
           invested' \in Inventories, unrecorded' \in Seq(Event),
           handler' \in [Requests -> T!Handler]
    PROVE  TradingInv'
  BY DEF TradingInv, TradingShape, RequestsOK, OverlapsOK

(* A run takes on the oldest event, which is recorded for now in its copy.   *)
LEMMA DeliverKeeps ==
    ASSUME TradingInv, NEW h \in Requests, T!Deliver(h)
    PROVE  TradingInv'
<1>1. /\ UNCHANGED <<inventory, held, collateral, allowance, approved, sent, req, invested>>
      /\ unrecorded # <<>> /\ unrecorded' = Tail(unrecorded)
  BY DEF T!Deliver, T!chain
<1>2. /\ invested \in Inventories /\ unrecorded \in Seq(Event)
      /\ handler \in [Requests -> T!Handler]
  BY DEF TradingInv, TradingShape
<1>3. PICK e \in Event : e = Head(unrecorded)
  BY <1>1, <1>2
<1>4. PICK copy : copy = [invested EXCEPT ![e.outcome] = invested[e.outcome] + e.tokens]
  OBVIOUS
<1>5. copy \in Inventories
  <2>1. e.outcome \in 0 .. 1 /\ e.tokens \in Int
    BY DEF Event
  <2>2. invested[e.outcome] + e.tokens \in Int
    BY <1>2, <2>1 DEF Inventories
  <2> QED
    BY <1>2, <1>4, <2>1, <2>2 DEF Inventories
<1>6. PICK new : new = [amounts |-> copy, work |-> {"saveTokens", "saveMarket"}]
  OBVIOUS
<1>7. new \in T!Handler
  BY <1>5, <1>6 DEF T!Handler, T!Outcomes, Inventories
<1>8. handler' = handler \/ handler' = [handler EXCEPT ![h] = new]
  BY <1>1, <1>3, <1>4, <1>6 DEF T!Deliver
<1>9. handler' \in [Requests -> T!Handler] /\ unrecorded' \in Seq(Event)
  BY <1>1, <1>2, <1>7, <1>8
<1> QED
  BY <1>1, <1>2, <1>9, RecordsKeep

(* Or it fails, and the event is given up.                                   *)
LEMMA GiveUpKeeps ==
    ASSUME TradingInv, T!GiveUp
    PROVE  TradingInv'
<1>1. /\ UNCHANGED <<inventory, held, collateral, allowance, approved, sent, req, invested, handler>>
      /\ unrecorded # <<>> /\ unrecorded' = Tail(unrecorded)
  BY DEF T!GiveUp, T!chain
<1>2. /\ invested \in Inventories /\ unrecorded \in Seq(Event)
      /\ handler \in [Requests -> T!Handler]
  BY DEF TradingInv, TradingShape
<1> QED
  BY <1>1, <1>2, RecordsKeep

(* A run saves the amounts of its copy that differed, or its row.            *)
LEMMA SaveKeeps ==
    ASSUME TradingInv, NEW h \in Requests, T!SaveTokens(h) \/ T!SaveMarket(h)
    PROVE  TradingInv'
<1>1. UNCHANGED <<inventory, held, collateral, allowance, approved, sent, req, unrecorded>>
  BY DEF T!SaveTokens, T!SaveMarket, T!chain
<1>2. /\ invested \in Inventories /\ unrecorded \in Seq(Event)
      /\ handler \in [Requests -> T!Handler]
  BY DEF TradingInv, TradingShape
<1>3. PICK run \in T!Handler : run = handler[h]
  BY <1>2
<1>4. run.amounts \in Inventories /\ run.work \in SUBSET {"saveTokens", "saveMarket"}
  BY DEF T!Handler, T!Outcomes, Inventories
<1>5. invested' \in Inventories
  <2>1. CASE T!SaveTokens(h)
    <3>1. PICK diff : invested' = [o \in 0 .. 1 |-> IF o \in diff THEN run.amounts[o] ELSE invested[o]]
      BY <1>3, <2>1 DEF T!SaveTokens, T!Outcomes
    <3> QED
      BY <1>2, <1>4, <3>1 DEF Inventories
  <2>2. CASE T!SaveMarket(h)
    BY <1>2, <2>2 DEF T!SaveMarket
  <2> QED
    BY <2>1, <2>2
<1>6. \A query : T!Done(h, query) => handler' \in [Requests -> T!Handler]
  <2> SUFFICES ASSUME NEW query, T!Done(h, query)
               PROVE  handler' \in [Requests -> T!Handler]
    OBVIOUS
  <2>1. PICK left \in SUBSET {"saveTokens", "saveMarket"} : left = run.work \ {query}
    BY <1>4
  <2>2. [amounts |-> run.amounts, work |-> left] \in T!Handler /\ T!Idle \in T!Handler
    BY <1>4 DEF T!Handler, T!Idle, T!Outcomes, Inventories
  <2>3. PICK new \in T!Handler : new = IF left = {} THEN T!Idle
                                      ELSE [amounts |-> run.amounts, work |-> left]
    BY <2>2
  <2>4. handler' = [handler EXCEPT ![h] = new]
    BY <1>3, <2>1, <2>3 DEF T!Done
  <2> QED
    BY <1>2, <2>4
<1>7. handler' \in [Requests -> T!Handler]
  BY <1>6 DEF T!SaveTokens, T!SaveMarket
<1> QED
  BY <1>1, <1>2, <1>5, <1>7, RecordsKeep

(* What leaves the chain, the row and the requests alone keeps it.          *)
LEMMA TradingRests ==
    ASSUME TradingInv,
           UNCHANGED <<inventory, invested, unrecorded, handler, held, collateral, allowance, approved, sent, req>>
    PROVE  TradingInv'
  BY DEF TradingInv, TradingShape, RequestsOK, OverlapsOK

(* Each step of a request, the chain and the indexer keeps it.              *)
LEMMA TradingKept ==
    ASSUME TradingInv, [Next]_vars
    PROVE  TradingInv'
<1>1. [T!Next]_(T!vars)
  BY TradingStep
<1>2. CASE UNCHANGED T!vars
  BY <1>2, TradingRests DEF T!vars
<1>3. ASSUME NEW r \in Requests, T!Step(r)
      PROVE  TradingInv'
  BY <1>3, QuoteKeeps, SeeCostKeeps, FailViewKeeps, ApproveKeeps, LookApprovedKeeps,
     QuoteSaleKeeps, EstimateKeeps, MineKeeps DEF T!Step
<1>4. ASSUME NEW r \in Requests, NEW u \in Users, NEW sell \in BOOLEAN, NEW o \in T!Outcomes,
             \/ \E n \in {2} : T!Ask(r, u, sell, "amount", o, n)
             \/ \E n \in {9} : T!Ask(r, u, sell, "payment", o, n)
      PROVE  TradingInv'
  <2>1. PICK by \in {"amount", "payment"}, n \in {2, 9} : T!Ask(r, u, sell, by, o, n)
    BY <1>4
  <2>2. n \in Nat \ {0} /\ o \in 0 .. 1
    BY DEF T!Outcomes
  <2> QED
    BY <2>1, <2>2, AskKeeps
<1>5. ASSUME NEW u \in Users, T!MineApproval(u)
      PROVE  TradingInv'
  BY <1>5, MineApprovalKeeps
<1>6. ASSUME NEW h \in Requests, T!Handle(h)
      PROVE  TradingInv'
  BY <1>6, DeliverKeeps, SaveKeeps DEF T!Handle
<1>7. CASE T!Close \/ T!CloseRow
  BY <1>7, TradingRests DEF T!Close, T!CloseRow, T!chain, T!row
<1>8. CASE T!GiveUp
  BY <1>8, GiveUpKeeps
<1> QED
  BY <1>1, <1>2, <1>3, <1>4, <1>5, <1>6, <1>7, <1>8 DEF T!Next

(* So it holds of every behaviour of the services.                          *)
LEMMA TradingInvariant == Spec => []TradingInv
  BY TradingStart, TradingKept, PTL DEF Spec

(* However the requests of all users interleave, with each other, with the   *)
(* indexer and with the closing of the market, a purchase for a payment      *)
(* costs no more than the payment (buyOutcomeToken, trade).                 *)
THEOREM PurchasesKeepToThePayment == Spec => []BuyWithinPayment
<1>1. TradingInv => BuyWithinPayment
  BY DEF TradingInv, RequestsOK, TradeOK, PaidOK, BuyWithinPayment, T!BuyWithinPayment
<1> QED
  BY <1>1, TradingInvariant, PTL

(* A sale for a payment brings it in, unless the recorded amounts it was     *)
(* calculated with (calculateLmsrPurchasableTokens) were not the chain's,    *)
(* or the price has moved since. The handlers of trade events may drop,      *)
(* fail and overwrite one another in any order.                             *)
THEOREM SalesBringInThePayment == Spec => []SalePaysUnlessDrift
<1>1. TradingInv => SalePaysUnlessDrift
  BY DEF TradingInv, RequestsOK, TradeOK, PaidOK, SalePaysUnlessDrift, T!SalePaysUnlessDrift
<1> QED
  BY <1>1, TradingInvariant, PTL

(* The contract accepts a trade that the server sends, unless a reason is    *)
(* known: this is where what the server read meets what the chain checks.    *)
Reasons(r) ==
    \/ req[r].drift \/ req[r].overlap \/ ~open
    \/ req[r].tokens = 0
    \/ -req[r].tokens > held[req[r].user][req[r].outcome]
    \/ req[r].sell /\ req[r].user \in sent

(* What the request has read, and nobody has changed since, is what the     *)
(* contract checks.                                                         *)
LEMMA RefusedForAReason ==
    ASSUME TradingInv, NEW r \in Requests, req[r].pc \in Sent, ~T!Accepts(req[r])
    PROVE  Reasons(r)
<1> SUFFICES ASSUME ~Reasons(r)
             PROVE  T!Accepts(req[r])
  OBVIOUS
<1>1. PICK me \in T!Request : me = req[r]
  BY DEF TradingInv, TradingShape
<1>2. PICK cost : cost = CostAt(inventory, me.outcome, me.tokens)
  OBVIOUS
<1>3. /\ me.pc \in Sent /\ me.pc \in Settled /\ SidesOK(me) /\ LimitsOK(me)
      /\ PricesOK(me, inventory) /\ OwnOK(me, collateral, allowance, approved, sent)
  BY <1>1 DEF TradingInv, RequestsOK, TradeOK, Sent, Settled, Underway
<1>4. /\ ~me.drift /\ ~me.overlap /\ open /\ me.tokens # 0
      /\ ~(-me.tokens > held[me.user][me.outcome])
      /\ ~(me.sell /\ me.user \in sent)
  BY <1>1 DEF Reasons
<1>5. /\ me.tokens \in Int /\ me.outcome \in 0 .. 1 /\ me.limit \in Int /\ me.user \in Users
      /\ me.tokens < 0 => me.sell
  BY <1>3, RequestFields DEF SidesOK, Sent
<1>6. cost \in Int /\ (me.tokens < 0 => cost < 0)
  <2>1. inventory \in Inventories
    BY DEF TradingInv, TradingShape
  <2> QED
    BY <1>2, <1>5, <2>1, CostsAndFees
<1>7. held[me.user][me.outcome] \in Int
  BY <1>5 DEF TradingInv, TradingShape, Inventories
<1>8. /\ me.limit = 0 \/ cost <= me.limit
      /\ me.tokens > 0 => cost <= allowance[me.user] /\ cost <= collateral[me.user]
      /\ me.tokens <= 0 => approved[me.user] /\ -me.tokens <= held[me.user][me.outcome]
  <2>1. CASE me.tokens > 0
    <3>1. me.paid = cost /\ me.limit = me.paid
      BY <1>2, <1>3, <1>4, <2>1 DEF PricesOK
    <3>2. me.paid <= collateral[me.user] /\ me.paid = allowance[me.user]
      BY <1>3, <1>4, <2>1 DEF OwnOK
    <3> QED
      BY <1>5, <1>6, <2>1, <3>1, <3>2
  <2>2. CASE me.tokens < 0
    <3>1. me.limit >= 0
      BY <1>3, <2>2 DEF LimitsOK
    <3>2. approved[me.user]
      BY <1>3, <1>4, <1>5, <2>2 DEF OwnOK
    <3> QED
      BY <1>4, <1>5, <1>6, <1>7, <2>2, <3>1, <3>2
  <2> QED
    BY <1>4, <1>5, <2>1, <2>2
<1>9. T!CostAfterFee(req[r].outcome, req[r].tokens) = cost
  BY <1>1, <1>2, CostOnChain
<1> QED
  BY <1>1, <1>4, <1>8, <1>9 DEF T!Accepts

(* Only a trade that the contract does not accept makes a request fail.      *)
LEMMA FailsWhereRefused ==
    ASSUME TradingInv, T!Next, NEW r \in Requests, req[r].pc # "failed", req'[r].pc = "failed"
    PROVE  req[r].pc \in Sent /\ ~T!Accepts(req[r])
<1>0. req \in [Requests -> T!Request]
  BY DEF TradingInv, TradingShape
<1>1. ASSUME NEW s \in Requests, NEW new, req' = [req EXCEPT ![s] = new]
      PROVE  new.pc = "failed" /\ s = r
  BY <1>0, <1>1
<1>2. ASSUME NEW s \in Requests, NEW pc, req' = [req EXCEPT ![s] = [req[s] EXCEPT !.pc = pc]]
      PROVE  pc = "failed" /\ s = r
  <2>1. PICK me \in T!Request : me = req[s]
    BY <1>0
  <2>2. PICK new : new = [me EXCEPT !.pc = pc]
    OBVIOUS
  <2>3. new.pc = pc
    BY <2>2 DEF T!Request
  <2>4. req' = [req EXCEPT ![s] = new]
    BY <1>2, <2>1, <2>2
  <2> QED
    BY <1>1, <2>3, <2>4
<1>3. ASSUME NEW s \in Requests, T!Quote(s)
      PROVE  FALSE
  <2>1. CASE closedAt \/ T!Unsolvable(s)
    BY <1>2, <1>3, <2>1 DEF T!Quote, T!Stop, T!Set
  <2>2. CASE ~(closedAt \/ T!Unsolvable(s))
    <3>1. PICK pc \in {"cost", "approval"} : \E a, b, c :
              req' = [req EXCEPT ![s] = [req[s] EXCEPT !.tokens = a, !.manual = b,
                                                       !.drift = c, !.pc = pc]]
      <4>1. PICK a : a = T!Tokens(s)
        OBVIOUS
      <4>2. PICK b : b = CASE req[s].by = "amount" -> 0
                           [] req[s].by = "payment" /\ req[s].sell -> T!Gross(req[s].asked)
                           [] OTHER -> req[s].asked
        OBVIOUS
      <4>3. PICK c : c = (req[s].by = "payment" /\ invested # inventory)
        OBVIOUS
      <4>4. PICK pc \in {"cost", "approval"} : pc = IF a > 0 THEN "cost" ELSE "approval"
        OBVIOUS
      <4>5. req' = [req EXCEPT ![s] = [req[s] EXCEPT
                  !.tokens = T!Tokens(s),
                  !.manual = CASE req[s].by = "amount" -> 0
                               [] req[s].by = "payment" /\ req[s].sell -> T!Gross(req[s].asked)
                               [] OTHER -> req[s].asked,
                  !.drift = req[s].by = "payment" /\ invested # inventory,
                  !.pc = IF T!Tokens(s) > 0 THEN "cost" ELSE "approval"]]
        BY <1>3, <2>2 DEF T!Quote, T!Set
      <4>6. req' = [req EXCEPT ![s] = [req[s] EXCEPT !.tokens = a, !.manual = b,
                                                     !.drift = c, !.pc = pc]]
        BY <4>1, <4>2, <4>3, <4>4, <4>5
      <4> QED
        BY <4>6
    <3>2. PICK me \in T!Request : me = req[s]
      BY <1>0
    <3>3. PICK a, b, c :
              req' = [req EXCEPT ![s] = [req[s] EXCEPT !.tokens = a, !.manual = b,
                                                       !.drift = c, !.pc = pc]]
      BY <3>1
    <3>4. PICK new : new = [me EXCEPT !.tokens = a, !.manual = b, !.drift = c, !.pc = pc]
      OBVIOUS
    <3>5. new.pc = pc
      BY <3>4 DEF T!Request
    <3>6. req' = [req EXCEPT ![s] = new]
      BY <3>2, <3>4, <3>3
    <3> QED
      BY <1>1, <3>5, <3>6
  <2> QED
    BY <2>1, <2>2
<1>4. ASSUME NEW s \in Requests, T!SeeCost(s)
      PROVE  FALSE
  <2>1. CASE T!CostAfterFee(req[s].outcome, req[s].tokens) > collateral[req[s].user]
    BY <1>2, <1>4, <2>1 DEF T!SeeCost, T!Stop, T!Set
  <2>2. CASE ~(T!CostAfterFee(req[s].outcome, req[s].tokens) > collateral[req[s].user])
    <3>1. PICK a, b : req' = [req EXCEPT ![s] = [req[s] EXCEPT !.pc = "approve", !.paid = a,
                                                               !.limit = b]]
      BY <1>4, <2>2 DEF T!SeeCost, T!Set
    <3>2. PICK me \in T!Request : me = req[s]
      BY <1>0
    <3>3. PICK new : new = [me EXCEPT !.pc = "approve", !.paid = a, !.limit = b]
      OBVIOUS
    <3>4. new.pc = "approve"
      BY <3>3 DEF T!Request
    <3>5. req' = [req EXCEPT ![s] = new]
      BY <3>1, <3>2, <3>3
    <3> QED
      BY <1>1, <3>4, <3>5
  <2> QED
    BY <2>1, <2>2
<1>5. ASSUME NEW s \in Requests, T!QuoteSale(s)
      PROVE  FALSE
  <2>1. PICK b : req' = [req EXCEPT ![s] = [req[s] EXCEPT !.pc = "estimate", !.limit = b]]
    BY <1>5 DEF T!QuoteSale, T!Set
  <2>2. PICK me \in T!Request : me = req[s]
    BY <1>0
  <2>3. PICK new : new = [me EXCEPT !.pc = "estimate", !.limit = b]
    OBVIOUS
  <2>4. new.pc = "estimate"
    BY <2>3 DEF T!Request
  <2>5. req' = [req EXCEPT ![s] = new]
    BY <2>1, <2>2, <2>3
  <2> QED
    BY <1>1, <2>4, <2>5
<1>6. ASSUME NEW s \in Requests, T!FailView(s) \/ T!Approve(s) \/ T!LookApproved(s)
      PROVE  FALSE
  BY <1>2, <1>6 DEF T!FailView, T!Approve, T!LookApproved, T!Stop, T!Set
<1>7. ASSUME NEW s \in Requests, T!Estimate(s)
      PROVE  req[r].pc \in Sent /\ ~T!Accepts(req[r])
  <2>1. CASE T!Accepts(req[s])
    BY <1>2, <1>7, <2>1 DEF T!Estimate, T!Stop, T!Set
  <2>2. CASE ~T!Accepts(req[s])
    <3>1. s = r
      BY <1>2, <1>7 DEF T!Estimate, T!Stop, T!Set
    <3> QED
      BY <1>7, <2>2, <3>1 DEF T!Estimate, Sent
  <2> QED
    BY <2>1, <2>2
<1>8. ASSUME NEW s \in Requests, T!Mine(s)
      PROVE  req[r].pc \in Sent /\ ~T!Accepts(req[r])
  <2>1. CASE T!Accepts(req[s])
    <3>1. PICK me \in T!Request, old \in T!Request : me = req[s] /\ old = req[r]
      BY <1>0
    <3>2. PICK cost : cost = T!CostAfterFee(me.outcome, me.tokens)
      OBVIOUS
    <3>3. PICK new, moved : new = [me EXCEPT !.pc = "done", !.paid = cost]
                            /\ moved = [old EXCEPT !.drift = TRUE]
      OBVIOUS
    <3>4. new.pc = "done" /\ moved.pc = old.pc
      BY <3>3 DEF T!Request
    <3>5. req'[r] = IF r = s THEN new ELSE moved
      BY <1>8, <2>1, <3>1, <3>2, <3>3 DEF T!Mine
    <3> QED
      BY <3>1, <3>4, <3>5
  <2>2. CASE ~T!Accepts(req[s])
    <3>1. req' = [req EXCEPT ![s] = [req[s] EXCEPT !.pc = "failed"]]
      BY <1>8, <2>2 DEF T!Mine, T!Stop, T!Set
    <3>2. s = r
      BY <1>2, <3>1
    <3> QED
      BY <1>8, <2>2, <3>2 DEF T!Mine, Sent
  <2> QED
    BY <2>1, <2>2
<1>9. ASSUME NEW s \in Requests, NEW u, NEW sell, NEW by, NEW o, NEW n,
             T!Ask(s, u, sell, by, o, n)
      PROVE  FALSE
  <2>1. PICK me \in T!Request, old \in T!Request : me = req[s] /\ old = req[r]
    BY <1>0
  <2>2. PICK pc \in {"refused", "quote"} :
            pc = IF sell /\ by = "amount" /\ n > held[u][o] THEN "refused" ELSE "quote"
    OBVIOUS
  <2>3. PICK lap, laps : lap = (T!Active(u) # {}) /\ laps = (old.overlap \/ r \in T!Active(u))
    OBVIOUS
  <2>4. PICK asks : asks = [me EXCEPT !.pc = pc, !.user = u, !.sell = sell, !.by = by,
                                      !.outcome = o, !.asked = n]
    OBVIOUS
  <2>5. PICK new, now : new = [asks EXCEPT !.overlap = lap] /\ now = [old EXCEPT !.overlap = laps]
    OBVIOUS
  <2>6. new.pc = pc /\ now.pc = old.pc
    BY <2>4, <2>5 DEF T!Request
  <2>7. req'[r] = IF r = s THEN new ELSE now
    BY <1>9, <2>1, <2>2, <2>3, <2>4, <2>5 DEF T!Ask
  <2> QED
    BY <2>1, <2>2, <2>6, <2>7
<1>10. ASSUME \/ T!GiveUp \/ T!Close \/ T!CloseRow \/ \E u \in Users : T!MineApproval(u)
              \/ \E h \in Requests : T!Handle(h)
       PROVE  FALSE
  BY <1>10 DEF T!GiveUp, T!Handle, T!Deliver, T!SaveTokens, T!SaveMarket, T!Close, T!CloseRow,
            T!MineApproval
<1> QED
  BY <1>3, <1>4, <1>5, <1>6, <1>7, <1>8, <1>9, <1>10 DEF T!Next, T!Step

(* A trade that reaches the chain, or its estimate, fails only for a reason  *)
(* that is known: the checks of buyOutcomeToken and sellOutcomeToken leave    *)
(* no other.                                                                *)
THEOREM FailuresHaveReasons == Spec => FailsForAReason
<1> DEFINE Fail == \A r \in Requests :
               req[r].pc # "failed" /\ req'[r].pc = "failed" => Reasons(r)
<1>1. TradingInv /\ T!Next => Fail
  <2> SUFFICES ASSUME TradingInv, T!Next, NEW r \in Requests,
                      req[r].pc # "failed", req'[r].pc = "failed"
               PROVE  Reasons(r)
    OBVIOUS
  <2>1. req[r].pc \in Sent /\ ~T!Accepts(req[r])
    BY FailsWhereRefused
  <2> QED
    BY <2>1, RefusedForAReason
<1> HIDE DEF Fail
<1>2. TradingInv /\ [Next]_vars => [Fail]_(T!vars)
  BY <1>1, TradingStep
<1>3. Spec => [][Fail]_(T!vars)
  BY <1>2, TradingInvariant, PTL DEF Spec
<1> QED
  BY <1>3 DEF Fail, Reasons, FailsForAReason, T!FailsForAReason

(***************************************************************************)
(* The price cache.                                                        *)
(***************************************************************************)

(* A step of the system is one of the cache, or leaves it alone.            *)
LEMMA PricesStep == [Next]_vars => [P!Next]_(P!vars)
  BY DEF Next, Others, priceCacheVars, vars, P!vars

(* The shapes of the variables that the argument needs.                     *)
PricesShape ==
    /\ late \in BOOLEAN
    /\ closing \in {"open", "contract", "deleted", "saved"}
    /\ fill \in [Requests -> [pc : {"idle", "price", "set"}, price : Int]]
    /\ reader \in [{Nobody} -> [pc : {"idle", "cache", "price", "done"}, open : BOOLEAN,
                                shown : Int]]
    /\ chainTrades \in Int /\ cache \in Int

(* Once the entry was deleted and nothing was late, the cache is empty and   *)
(* nobody fills it; who holds the row of a closed market came after that.    *)
PricesInv ==
    /\ PricesShape
    /\ ~late /\ closing \in {"deleted", "saved"} =>
          cache = P!None /\ \A f \in Requests : fill[f].pc = "idle"
    /\ \A r \in {Nobody} :
          /\ ~reader[r].open => closing = "saved"
          /\ reader[r].pc = "done" /\ ~reader[r].open /\ ~late => reader[r].shown = P!Final

(* The cache starts empty, with no trade to show.                           *)
LEMMA PricesStart == Init => PricesInv
<1> SUFFICES ASSUME P!Init
             PROVE  PricesInv
  BY DEF Init
<1>1. reader = [r \in {Nobody} |-> [pc |-> "idle", open |-> TRUE, shown |-> -1]]
  BY DEF P!Init, P!ReaderIdle, P!None
<1>2. fill = [f \in Requests |-> [pc |-> "idle", price |-> -1]]
  BY DEF P!Init, P!Idle, P!None
<1>3. fill \in [Requests -> [pc : {"idle", "price", "set"}, price : Int]]
  BY <1>2
<1>4. reader \in [{Nobody} -> [pc : {"idle", "cache", "price", "done"}, open : BOOLEAN,
                               shown : Int]]
  BY <1>1
<1>5. late = FALSE /\ closing = "open" /\ chainTrades = 0 /\ cache = -1
  BY DEF P!Init, P!None
<1>6. late \in BOOLEAN /\ ~late
  BY <1>5
<1>7. closing \in {"open", "contract", "deleted", "saved"} /\ chainTrades \in Int /\ cache \in Int
  BY <1>5
<1>8. PricesShape
  BY <1>3, <1>4, <1>6, <1>7 DEF PricesShape
<1> QED
  BY <1>1, <1>5, <1>8 DEF PricesInv

(* Each step of a trade, a fill, a reader and the closing keeps it.         *)
LEMMA PricesKept == PricesInv /\ [P!Next]_(P!vars) => PricesInv'
<1> SUFFICES ASSUME PricesInv, [P!Next]_(P!vars)
             PROVE  PricesInv'
  OBVIOUS
<1> USE DEF PricesInv, PricesShape
<1>1. CASE P!Trade
  BY <1>1 DEF P!Trade
<1>2. CASE P!Expire
  BY <1>2 DEF P!Expire, P!None
<1>3. CASE P!CloseContract
  BY <1>3 DEF P!CloseContract
<1>4. CASE P!DeleteEntry
  <2>1. UNCHANGED <<fill, reader>> /\ closing = "contract" /\ closing' = "deleted"
    BY <1>4 DEF P!DeleteEntry
  <2>3. late' \in BOOLEAN
    BY <1>4 DEF P!DeleteEntry
  <2>4. cache' \in Int /\ chainTrades' \in Int
    BY <1>4 DEF P!DeleteEntry, P!None
  <2>2. ~late' => cache' = P!None /\ \A f \in Requests : fill[f].pc = "idle"
    BY <1>4 DEF P!DeleteEntry, P!Filling
  <2> QED
    BY <2>1, <2>2, <2>3, <2>4
<1>5. CASE P!SaveRow
  BY <1>5 DEF P!SaveRow
<1>6. ASSUME NEW f \in Requests, P!BeginFill(f)
      PROVE  PricesInv'
  BY <1>6 DEF P!BeginFill, P!Eligible, P!RowOpen
<1>7. ASSUME NEW f \in Requests, P!ReadPrices(f)
      PROVE  PricesInv'
  BY <1>7 DEF P!ReadPrices, P!Prices
<1>8. ASSUME NEW f \in Requests, P!SetCache(f)
      PROVE  PricesInv'
  BY <1>8 DEF P!SetCache, P!Idle, P!None
<1>9. ASSUME NEW f \in Requests, P!FailFill(f)
      PROVE  PricesInv'
  BY <1>9 DEF P!FailFill, P!Idle, P!None
<1>10. ASSUME NEW r \in {Nobody}, P!Load(r)
       PROVE  PricesInv'
  BY <1>10 DEF P!Load, P!RowOpen
<1>11. ASSUME NEW r \in {Nobody}, P!LookInCache(r)
       PROVE  PricesInv'
  BY <1>11 DEF P!LookInCache, P!None
<1>12. ASSUME NEW r \in {Nobody}, P!Compute(r)
       PROVE  PricesInv'
  <2>1. reader' = [reader EXCEPT ![r] = [@ EXCEPT !.pc = "done",
                        !.shown = IF reader[r].open THEN chainTrades ELSE P!Final]]
    BY <1>12, Zenon DEF P!Compute, P!Prices
  <2>2. reader'[r].open = reader[r].open /\ (~reader[r].open => reader'[r].shown = P!Final)
    BY <2>1
  <2>3. reader' \in [{Nobody} -> [pc : {"idle", "cache", "price", "done"}, open : BOOLEAN,
                                   shown : Int]]
    <3>1. (IF reader[r].open THEN chainTrades ELSE P!Final) \in Int
      BY DEF P!Final
    <3> QED
      BY <2>1, <3>1
  <2> QED
    BY <1>12, <2>2, <2>3 DEF P!Compute
<1>13. CASE UNCHANGED P!vars
  BY <1>13 DEF P!vars
<1> QED
  BY <1>1, <1>2, <1>3, <1>4, <1>5, <1>6, <1>7, <1>8, <1>9, <1>10, <1>11, <1>12, <1>13
     DEF P!Next

(* Who loads a market after it was closed is shown its final prices.        *)
THEOREM FinalPricesAreShown == Spec => []FinalOnceClosed
<1>1. PricesInv => FinalOnceClosed
  BY DEF PricesInv, FinalOnceClosed, P!FinalOnceClosed
<1> QED
  BY <1>1, PricesStart, PricesStep, PricesKept, PTL DEF Spec

(***************************************************************************)
(* The accounts of users.                                                  *)
(***************************************************************************)

(* A step of the system is one of the accounts, or leaves them alone.       *)
LEMMA AccountsStep == [Next]_vars => [A!Next]_(A!vars)
  BY DEF Next, Others, accountsVars, vars, A!vars

(* Rows of users, and what a request to register or to patch carries.       *)
UserNames == {"ann", "bob@x"}
UserEmails == {"ann@x", "bob@x"}
Secret == [kind : {"plain", "hash", "cut", "nul"}, of : {"secret"}]
UserRow == [name : UserNames, email : UserEmails, secret : Secret]
Registration == [step : {"name", "email", "save"}, name : UserNames, email : UserEmails,
                 password : {"secret"}]
Registered == [step : {"settings"}, id : Nat]
PatchCall(field, values) ==
    [step : {"patch"}, user : UserRow, field : {field}, value : values]
Patching == PatchCall("name", UserNames) \union PatchCall("email", UserEmails)
            \union PatchCall("password", Secret)
UserCall == {A!Idle} \union Registration \union Registered \union Patching

Registers(c) == userCall[c].step \in {"name", "email", "save", "settings"}

AccountsShape ==
    /\ users \in Seq(UserRow)
    /\ userCall \in [Requests -> UserCall] /\ session \in [Requests -> Nat]
    /\ raced \in BOOLEAN
    /\ \A c \in Requests :
          /\ session[c] <= Len(users)
          /\ userCall[c].step = "settings" => userCall[c].id \in 1 .. Len(users)
          /\ userCall[c].step = "patch" => session[c] # 0

(* Usernames are unique, as the database sees to it; a secret that was not  *)
(* patched is a hash, whole or cut.                                         *)
SecretOK(secret, id) == secret.kind \in {"hash", "cut"} \/ <<id, "password">> \in patched
RowsOK ==
    /\ \A i, j \in DOMAIN users : users[i].name = users[j].name => i = j
    /\ \A i \in DOMAIN users : SecretOK(users[i].secret, i)

(* A row that was loaded to be patched has the email the row still has,     *)
(* unless the email was patched since.                                      *)
LoadedOK == \A c \in Requests : userCall[c].step = "patch" =>
    /\ SecretOK(userCall[c].user.secret, session[c])
    /\ \/ userCall[c].user.email = users[session[c]].email
       \/ <<session[c], "email">> \in patched

(* While one registers at a time, an email that was not found is not there. *)
EmailsOK == raced \/
    /\ \A c, d \in Requests : Registers(c) /\ Registers(d) => c = d
    /\ \A c \in Requests : userCall[c].step = "save" =>
          \A i \in DOMAIN users :
             users[i].email = userCall[c].email => <<i, "email">> \in patched
    /\ \A i, j \in DOMAIN users : users[i].email = users[j].email /\ i # j =>
             <<i, "email">> \in patched \/ <<j, "email">> \in patched

AccountsInv == AccountsShape /\ RowsOK /\ LoadedOK /\ EmailsOK

(* There are no users and no requests at the start.                         *)
LEMMA AccountsStart == Init => AccountsInv
<1> SUFFICES ASSUME A!Init
             PROVE  AccountsInv
  BY DEF Init
<1>1. users = <<>> /\ raced = FALSE /\ session = [c \in Requests |-> 0]
      /\ userCall = [c \in Requests |-> A!Idle]
  BY DEF A!Init
<1>2. A!Idle.step = "idle" /\ A!Idle \in UserCall
  BY DEF A!Idle, UserCall
<1>3. \A c \in Requests : userCall[c].step = "idle" /\ session[c] = 0
  BY <1>1, <1>2
<1>4. AccountsShape
  <2>1. users \in Seq(UserRow) /\ Len(users) = 0
    BY <1>1
  <2>2. userCall \in [Requests -> UserCall] /\ session \in [Requests -> Nat]
    BY <1>1, <1>2
  <2>3. raced \in BOOLEAN
    BY <1>1
  <2>4. \A c \in Requests : session[c] <= Len(users)
    <3>1. PICK n \in Nat : n = Len(users) /\ n = 0
      BY <2>1
    <3>2. \A c \in Requests : session[c] = n
      BY <1>3, <3>1
    <3>3. n <= n
      OBVIOUS
    <3> QED
      BY <3>1, <3>2, <3>3
  <2> QED
    BY <1>3, <2>1, <2>2, <2>3, <2>4 DEF AccountsShape
<1>5. DOMAIN users = {}
  BY <1>1
<1> QED
  BY <1>3, <1>4, <1>5 DEF AccountsInv, RowsOK, LoadedOK, EmailsOK, Registers

(* What the kinds of requests are told apart by.                            *)
LEMMA CallKinds ==
    ASSUME NEW k \in UserCall
    PROVE  /\ A!Idle.step = "idle"
           /\ k.step = "idle" => k = A!Idle
           /\ k.step \in {"name", "email", "save"} =>
                 k \in Registration /\ k.name \in UserNames /\ k.email \in UserEmails
           /\ k.step = "settings" => k \in Registered /\ k.id \in Nat
           /\ k.step = "patch" => k \in Patching /\ k.user \in UserRow
           /\ k.step \in {"idle", "name", "email", "save", "settings", "patch"}
<1>1. A!Idle.step = "idle"
  BY DEF A!Idle
<1>2. k \in Registration => k.step \in {"name", "email", "save"}
          /\ k.name \in UserNames /\ k.email \in UserEmails
  BY DEF Registration
<1>3. k \in Registered => k.step = "settings" /\ k.id \in Nat
  BY DEF Registered
<1>4. k \in Patching => k.step = "patch" /\ k.user \in UserRow
  BY DEF Patching, PatchCall
<1> QED
  BY <1>1, <1>2, <1>3, <1>4 DEF UserCall

(* A row that a patch saves: of a field of its own, or the one it loaded.   *)
LEMMA AssignedRow ==
    ASSUME NEW k \in Patching
    PROVE  /\ A!Assign(k.user, k.field, k.value) \in UserRow
           /\ k.field # "email" => A!Assign(k.user, k.field, k.value).email = k.user.email
           /\ k.field # "password" => A!Assign(k.user, k.field, k.value).secret = k.user.secret
           /\ k.field \in {"name", "email", "password"}
<1>1. CASE k \in PatchCall("name", UserNames)
  BY <1>1 DEF PatchCall, A!Assign, UserRow
<1>2. CASE k \in PatchCall("email", UserEmails)
  BY <1>2 DEF PatchCall, A!Assign, UserRow
<1>3. CASE k \in PatchCall("password", Secret)
  BY <1>3 DEF PatchCall, A!Assign, UserRow
<1> QED
  BY <1>1, <1>2, <1>3 DEF Patching

(* A request that becomes another, while the rows stay.                     *)
LEMMA CallsOfAccounts ==
    ASSUME AccountsInv, NEW c \in Requests, NEW k \in UserCall,
           userCall' = [userCall EXCEPT ![c] = k], UNCHANGED <<users, patched>>,
           raced' \in BOOLEAN, raced => raced',
           session' \in [Requests -> Nat], session'[c] <= Len(users),
           \A d \in Requests \ {c} : session'[d] = session[d],
           k.step = "settings" => k.id \in 1 .. Len(users),
           k.step = "patch" => /\ session'[c] # 0 /\ SecretOK(k.user.secret, session'[c])
                               /\ k.user.email = users[session'[c]].email,
           ~raced' => \/ ~(k.step \in {"name", "email", "save", "settings"})
                      \/ Registers(c)
                      \/ \A d \in Requests \ {c} : ~Registers(d),
           ~raced' /\ k.step = "save" => \A i \in DOMAIN users : users[i].email # k.email
    PROVE  AccountsInv'
<1>1. /\ users \in Seq(UserRow) /\ userCall \in [Requests -> UserCall]
      /\ session \in [Requests -> Nat] /\ raced \in BOOLEAN
  BY DEF AccountsInv, AccountsShape
<1>2. userCall'[c] = k /\ \A d \in Requests \ {c} : userCall'[d] = userCall[d]
  BY <1>1
<1>3. userCall' \in [Requests -> UserCall]
  BY <1>1
<1>4. AccountsShape'
  BY <1>1, <1>2, <1>3 DEF AccountsInv, AccountsShape
<1>5. RowsOK'
  BY DEF AccountsInv, RowsOK, SecretOK
<1>6. LoadedOK'
  BY <1>2 DEF AccountsInv, LoadedOK, SecretOK
<1>7. EmailsOK'
  <2> SUFFICES ASSUME ~raced'
               PROVE  EmailsOK'
    BY <1>4 DEF EmailsOK
  <2>1. /\ \A d, e \in Requests : Registers(d) /\ Registers(e) => d = e
        /\ \A d \in Requests : userCall[d].step = "save" =>
              \A i \in DOMAIN users :
                 users[i].email = userCall[d].email => <<i, "email">> \in patched
        /\ \A i, j \in DOMAIN users : users[i].email = users[j].email /\ i # j =>
                 <<i, "email">> \in patched \/ <<j, "email">> \in patched
    BY <1>1 DEF AccountsInv, EmailsOK
  <2>2. \A d \in Requests \ {c} : Registers(d)' = Registers(d)
    BY <1>2 DEF Registers
  <2>3. \A d, e \in Requests : Registers(d)' /\ Registers(e)' => d = e
    <3>1. Registers(c)' => k.step \in {"name", "email", "save", "settings"}
      BY <1>2 DEF Registers
    <3> QED
      BY <2>1, <2>2, <3>1
  <2>4. \A d \in Requests : userCall'[d].step = "save" =>
              \A i \in DOMAIN users :
                 users[i].email = userCall'[d].email => <<i, "email">> \in patched
    BY <1>2, <2>1
  <2> QED
    BY <2>1, <2>3, <2>4 DEF EmailsOK
<1> QED
  BY <1>4, <1>5, <1>6, <1>7 DEF AccountsInv

(* The requests that register, log in and out, and load a row to patch.     *)
LEMMA RequestsKeepAccounts ==
    ASSUME AccountsInv, NEW c \in Requests,
           \/ A!Register(c) \/ A!FindName(c) \/ A!FindEmail(c) \/ A!SaveSettings(c)
           \/ A!LogIn(c) \/ A!LogOut(c) \/ A!Patch(c)
    PROVE  AccountsInv'
<1>1. /\ users \in Seq(UserRow) /\ userCall \in [Requests -> UserCall]
      /\ session \in [Requests -> Nat] /\ raced \in BOOLEAN /\ userCall[c] \in UserCall
      /\ session[c] <= Len(users) /\ Len(users) \in Nat /\ DOMAIN users = 1 .. Len(users)
  BY DEF AccountsInv, AccountsShape
<1>2. A!Idle \in UserCall /\ A!Idle.step = "idle"
  BY DEF UserCall, A!Idle
<1>3. CASE A!Register(c)
  <2>1. PICK name \in UserNames, email \in UserEmails, password \in {"secret"} :
            userCall' = [userCall EXCEPT ![c] =
                [step |-> "name", name |-> name, email |-> email, password |-> password]]
    BY <1>3 DEF A!Register, UserNames, UserEmails
  <2>2. PICK k : k = [step |-> "name", name |-> name, email |-> email, password |-> password]
    OBVIOUS
  <2>3. k \in UserCall /\ k.step = "name"
    BY <2>2 DEF UserCall, Registration
  <2>4. UNCHANGED <<users, session, patched>>
        /\ raced' = (raced \/ \E d \in Requests \ {c} : A!Registering(d))
    BY <1>3 DEF A!Register
  <2>5. \A d \in Requests : A!Registering(d) <=> Registers(d)
    BY DEF A!Registering, Registers
  <2>6. raced' \in BOOLEAN /\ (raced => raced')
        /\ (~raced' => \A d \in Requests \ {c} : ~Registers(d))
    BY <1>1, <2>4, <2>5
  <2>7. userCall' = [userCall EXCEPT ![c] = k]
    BY <2>1, <2>2
  <2> QED
    BY <1>1, <2>3, <2>4, <2>6, <2>7, CallsOfAccounts
<1>4. CASE A!FindName(c)
  <2>1. userCall[c].step = "name" /\ UNCHANGED <<users, session, patched, raced>>
        /\ userCall' = [userCall EXCEPT ![c] =
               IF A!ByName(userCall[c].name) # {} THEN A!Idle
               ELSE [userCall[c] EXCEPT !.step = "email"]]
    BY <1>1, <1>4 DEF A!FindName
  <2>2. userCall[c] \in Registration
    BY <1>1, <2>1, CallKinds
  <2>3. PICK k : /\ k \in {A!Idle, [userCall[c] EXCEPT !.step = "email"]}
                 /\ userCall' = [userCall EXCEPT ![c] = k]
    BY <2>1
  <2>4. k \in UserCall /\ k.step \in {"idle", "email"}
    BY <1>2, <2>2, <2>3 DEF UserCall, Registration
  <2>5. Registers(c)
    BY <2>1 DEF Registers
  <2> QED
    BY <1>1, <2>1, <2>3, <2>4, <2>5, CallsOfAccounts
<1>5. CASE A!FindEmail(c)
  <2>1. userCall[c].step = "email" /\ UNCHANGED <<users, session, patched, raced>>
        /\ userCall' = [userCall EXCEPT ![c] =
               IF A!ByEmail(userCall[c].email) # {} THEN A!Idle
               ELSE [userCall[c] EXCEPT !.step = "save"]]
    BY <1>1, <1>5 DEF A!FindEmail
  <2>2. userCall[c] \in Registration
    BY <1>1, <2>1, CallKinds
  <2>3. Registers(c)
    BY <2>1 DEF Registers
  <2>4. CASE A!ByEmail(userCall[c].email) # {}
    <3>1. userCall' = [userCall EXCEPT ![c] = A!Idle]
      BY <2>1, <2>4
    <3> QED
      BY <1>1, <1>2, <2>1, <3>1, CallsOfAccounts
  <2>5. CASE A!ByEmail(userCall[c].email) = {}
    <3>1. PICK k : k = [userCall[c] EXCEPT !.step = "save"]
      OBVIOUS
    <3>2. userCall' = [userCall EXCEPT ![c] = k]
      BY <2>1, <2>5, <3>1
    <3>3. k \in UserCall /\ k.step = "save" /\ k.email = userCall[c].email
      BY <2>2, <3>1 DEF UserCall, Registration
    <3>4. \A i \in DOMAIN users : users[i].email # k.email
      BY <2>5, <3>3 DEF A!ByEmail, A!Rows
    <3> QED
      BY <1>1, <2>1, <2>3, <3>2, <3>3, <3>4, CallsOfAccounts
  <2> QED
    BY <2>4, <2>5
<1>6. CASE A!SaveSettings(c)
  <2>1. userCall[c].step = "settings" /\ UNCHANGED <<users, patched, raced>>
        /\ userCall' = [userCall EXCEPT ![c] = A!Idle]
        /\ session' = [session EXCEPT ![c] = userCall[c].id]
    BY <1>6 DEF A!SaveSettings
  <2>2. userCall[c].id \in 1 .. Len(users)
    BY <2>1 DEF AccountsInv, AccountsShape
  <2>3. session' \in [Requests -> Nat] /\ session'[c] <= Len(users)
        /\ \A d \in Requests \ {c} : session'[d] = session[d]
    BY <1>1, <2>1, <2>2
  <2> QED
    BY <1>1, <1>2, <2>1, <2>3, CallsOfAccounts
<1>7. CASE A!LogIn(c) \/ A!LogOut(c)
  <2>1. userCall[c] = A!Idle /\ UNCHANGED <<users, userCall, patched, raced>>
    BY <1>7 DEF A!LogIn, A!LogOut
  <2>2. PICK id \in 0 .. Len(users) : session' = [session EXCEPT ![c] = id]
    BY <1>1, <1>7 DEF A!LogIn, A!LogOut, A!Rows
  <2>3. session' \in [Requests -> Nat] /\ session'[c] <= Len(users)
        /\ \A d \in Requests \ {c} : session'[d] = session[d]
    BY <1>1, <2>2
  <2>4. userCall' = [userCall EXCEPT ![c] = A!Idle]
    BY <1>1, <2>1
  <2> QED
    BY <1>1, <1>2, <2>1, <2>3, <2>4, CallsOfAccounts
<1>8. CASE A!Patch(c)
  <2>1. UNCHANGED <<users, session, patched, raced>> /\ session[c] # 0
    BY <1>8 DEF A!Patch
  <2>2. session[c] \in DOMAIN users /\ users[session[c]] \in UserRow
    BY <1>1, <2>1
  <2>3a. PICK field \in {"name", "email", "password"} : \E value :
            /\ userCall' = [userCall EXCEPT ![c] = [step |-> "patch", user |-> users[session[c]],
                                                   field |-> field, value |-> value]]
            /\ field = "name" => value \in UserNames
            /\ field = "email" => value \in UserEmails
            /\ field = "password" => value \in {[kind |-> "plain", of |-> p] : p \in {"secret"}}
    BY <1>8 DEF A!Patch, A!Fields, UserNames, UserEmails
  <2>3. PICK value :
            /\ userCall' = [userCall EXCEPT ![c] = [step |-> "patch", user |-> users[session[c]],
                                                   field |-> field, value |-> value]]
            /\ field = "name" => value \in UserNames
            /\ field = "email" => value \in UserEmails
            /\ field = "password" => value \in {[kind |-> "plain", of |-> p] : p \in {"secret"}}
    BY <2>3a
  <2>4. PICK k : k = [step |-> "patch", user |-> users[session[c]], field |-> field,
                      value |-> value]
    OBVIOUS
  <2>5. k.step = "patch" /\ k.user = users[session[c]]
    BY <2>4
  <2>6. k \in Patching
    <3>1. CASE field = "name"
      BY <2>2, <2>3, <2>4, <3>1 DEF Patching, PatchCall
    <3>2. CASE field = "email"
      BY <2>2, <2>3, <2>4, <3>2 DEF Patching, PatchCall
    <3>3. CASE field = "password"
      <4>1. value \in Secret
        BY <2>3, <3>3 DEF Secret
      <4> QED
        BY <2>2, <2>4, <3>3, <4>1 DEF Patching, PatchCall
    <3> QED
      BY <3>1, <3>2, <3>3
  <2>7. SecretOK(k.user.secret, session[c])
    BY <2>2, <2>5 DEF AccountsInv, RowsOK
  <2>8. userCall' = [userCall EXCEPT ![c] = k] /\ k \in UserCall
    BY <2>3, <2>4, <2>6 DEF UserCall
  <2> QED
    BY <1>1, <2>1, <2>5, <2>7, <2>8, CallsOfAccounts
<1> QED
  BY <1>3, <1>4, <1>5, <1>6, <1>7, <1>8

(* The rows after a step that saved one, i, and ended a request.            *)
LEMMA RowsOfAccounts ==
    ASSUME AccountsInv, NEW c \in Requests, NEW k \in UserCall,
           userCall' = [userCall EXCEPT ![c] = k], k.step \in {"idle", "settings"},
           k.step = "settings" => Registers(c) /\ k.id \in 1 .. Len(users'),
           UNCHANGED <<session, raced>>, patched \subseteq patched',
           users' \in Seq(UserRow), Len(users) <= Len(users'),
           NEW i \in 1 .. Len(users'), \A j \in 1 .. Len(users') \ {i} : j \in DOMAIN users,
           \A j \in DOMAIN users \ {i} : users'[j] = users[j],
           \A j \in DOMAIN users \ {i} : users[j].name # users'[i].name,
           users'[i].secret.kind \in {"hash", "cut"} \/ <<i, "password">> \in patched',
           (* An email is one that was not found, or the row's, or patched.   *)
           \/ <<i, "email">> \in patched'
           \/ i \in DOMAIN users /\ users'[i].email = users[i].email
           \/ /\ i \notin DOMAIN users /\ Registers(c)
              /\ userCall[c].step = "save" /\ userCall[c].email = users'[i].email
    PROVE  AccountsInv'
<1>1. /\ users \in Seq(UserRow) /\ userCall \in [Requests -> UserCall]
      /\ session \in [Requests -> Nat] /\ raced \in BOOLEAN
      /\ Len(users) \in Nat /\ Len(users') \in Nat
      /\ DOMAIN users = 1 .. Len(users) /\ DOMAIN users' = 1 .. Len(users')
      /\ \A d \in Requests : session[d] <= Len(users)
  BY DEF AccountsInv, AccountsShape
<1>2. userCall'[c] = k /\ \A d \in Requests \ {c} : userCall'[d] = userCall[d]
  BY <1>1
<1>3. DOMAIN users \subseteq DOMAIN users'
  BY <1>1
<1>4. userCall' \in [Requests -> UserCall]
  BY <1>1
<1>5. AccountsShape'
  <2>1. \A d \in Requests : session'[d] <= Len(users')
    BY <1>1
  <2>2. ASSUME NEW d \in Requests
        PROVE  /\ userCall'[d].step = "settings" => userCall'[d].id \in 1 .. Len(users')
               /\ userCall'[d].step = "patch" => session'[d] # 0
    <3>1. CASE d = c
      BY <1>2, <3>1
    <3>2. CASE d # c
      <4>1. userCall[d].step = "settings" => userCall[d].id \in 1 .. Len(users)
        BY DEF AccountsInv, AccountsShape
      <4>2. userCall[d].step = "patch" => session[d] # 0
        BY DEF AccountsInv, AccountsShape
      <4> QED
        BY <1>1, <1>2, <1>3, <3>2, <4>1, <4>2
    <3> QED
      BY <3>1, <3>2
  <2> QED
    BY <1>1, <1>4, <2>1, <2>2 DEF AccountsShape
<1>6. RowsOK'
  <2>1. ASSUME NEW j \in DOMAIN users', NEW l \in DOMAIN users', users'[j].name = users'[l].name
        PROVE  j = l
    BY <1>1, <2>1 DEF AccountsInv, RowsOK
  <2>2. ASSUME NEW j \in DOMAIN users'
        PROVE  users'[j].secret.kind \in {"hash", "cut"} \/ <<j, "password">> \in patched'
    <3>1. CASE j = i
      BY <3>1
    <3>2. CASE j # i
      BY <1>1, <3>2 DEF AccountsInv, RowsOK, SecretOK
    <3> QED
      BY <3>1, <3>2
  <2> QED
    BY <2>1, <2>2 DEF RowsOK, SecretOK
<1>7. LoadedOK'
  <2> SUFFICES ASSUME NEW d \in Requests, userCall'[d].step = "patch"
               PROVE  /\ \/ userCall'[d].user.secret.kind \in {"hash", "cut"}
                         \/ <<session[d], "password">> \in patched'
                      /\ \/ userCall'[d].user.email = users'[session[d]].email
                         \/ <<session[d], "email">> \in patched'
    BY DEF LoadedOK, SecretOK
  <2>1. d # c /\ userCall'[d] = userCall[d]
    BY <1>2
  <2>2. session[d] \in DOMAIN users
    BY <1>1, <2>1 DEF AccountsInv, AccountsShape
  <2>3. /\ \/ userCall[d].user.secret.kind \in {"hash", "cut"}
           \/ <<session[d], "password">> \in patched
        /\ \/ userCall[d].user.email = users[session[d]].email
           \/ <<session[d], "email">> \in patched
    BY <2>1 DEF AccountsInv, LoadedOK, SecretOK
  <2>4. users'[session[d]].email = users[session[d]].email \/ <<session[d], "email">> \in patched'
    BY <1>1, <2>2
  <2> QED
    BY <2>1, <2>3, <2>4
<1>8. EmailsOK'
  <2> SUFFICES ASSUME ~raced'
               PROVE  EmailsOK'
    BY <1>5 DEF EmailsOK
  <2>1. /\ \A d, e \in Requests : Registers(d) /\ Registers(e) => d = e
        /\ \A d \in Requests : userCall[d].step = "save" =>
              \A j \in DOMAIN users :
                 users[j].email = userCall[d].email => <<j, "email">> \in patched
        /\ \A j, l \in DOMAIN users : users[j].email = users[l].email /\ j # l =>
                 <<j, "email">> \in patched \/ <<l, "email">> \in patched
    BY <1>1 DEF AccountsInv, EmailsOK
  <2>2. \A d \in Requests : Registers(d)' => Registers(d)
    BY <1>2 DEF Registers
  <2>3. \A d, e \in Requests : Registers(d)' /\ Registers(e)' => d = e
    BY <2>1, <2>2
  <2>4. ASSUME NEW d \in Requests, userCall'[d].step = "save", NEW j \in DOMAIN users',
               users'[j].email = userCall'[d].email
        PROVE  <<j, "email">> \in patched'
    <3>1. d # c /\ userCall'[d] = userCall[d] /\ Registers(d)
      BY <1>2, <2>4 DEF Registers
    <3>2. ~Registers(c)
      BY <2>1, <3>1
    <3> QED
      BY <1>1, <2>1, <2>4, <3>1, <3>2
  <2>5. ASSUME NEW j \in DOMAIN users', NEW l \in DOMAIN users',
               users'[j].email = users'[l].email, j # l
        PROVE  <<j, "email">> \in patched' \/ <<l, "email">> \in patched'
    <3>1. ASSUME NEW m \in DOMAIN users', m # i, users'[m].email = users'[i].email
          PROVE  <<m, "email">> \in patched' \/ <<i, "email">> \in patched'
      <4>1. m \in DOMAIN users /\ users'[m] = users[m]
        BY <1>1, <3>1
      <4> QED
        BY <2>1, <3>1, <4>1
    <3> QED
      BY <1>1, <2>1, <2>5, <3>1
  <2> QED
    BY <2>3, <2>4, <2>5 DEF EmailsOK
<1> QED
  BY <1>5, <1>6, <1>7, <1>8 DEF AccountsInv

(* A registration that saves its row and ends keeps what is known of the    *)
(* rows.                                                                    *)
LEMMA SavingUsersKeeps ==
    ASSUME AccountsInv, NEW c \in Requests, A!SaveUser(c)
    PROVE  AccountsInv'
<1>1. /\ users \in Seq(UserRow) /\ userCall \in [Requests -> UserCall]
      /\ Len(users) \in Nat /\ DOMAIN users = 1 .. Len(users) /\ userCall[c] \in UserCall
      /\ session \in [Requests -> Nat] /\ \A d \in Requests : session[d] <= Len(users)
      /\ raced \in BOOLEAN
  BY DEF AccountsInv, AccountsShape
<1>2. userCall[c].step = "save" /\ UNCHANGED <<session, raced, patched>> /\ Registers(c)
  BY DEF A!SaveUser, Registers
<1>3. /\ userCall[c] \in Registration
      /\ userCall[c].name \in UserNames /\ userCall[c].email \in UserEmails
      /\ userCall[c].password \in {"secret"}
  BY <1>1, <1>2, CallKinds DEF Registration
<1>4. A!Idle \in UserCall /\ A!Idle.step = "idle"
  BY DEF UserCall, A!Idle
<1>5. CASE userCall' = [userCall EXCEPT ![c] = A!Idle] /\ UNCHANGED users
  BY <1>1, <1>2, <1>4, <1>5, CallsOfAccounts
<1>6. CASE ~(userCall' = [userCall EXCEPT ![c] = A!Idle] /\ UNCHANGED users)
  <2>1. PICK secret \in A!Hashes(userCall[c].password) :
            /\ secret.kind # "nul" /\ A!ByName(userCall[c].name) = {}
            /\ users' = Append(users, [name |-> userCall[c].name, email |-> userCall[c].email,
                                       secret |-> secret])
            /\ userCall' = [userCall EXCEPT ![c] = [step |-> "settings", id |-> Len(users')]]
    BY <1>6 DEF A!SaveUser
  <2>2. secret \in Secret /\ secret.kind \in {"hash", "cut"}
    BY <1>3, <2>1 DEF A!Hashes, Secret
  <2>3. PICK row : row = [name |-> userCall[c].name, email |-> userCall[c].email,
                          secret |-> secret]
    OBVIOUS
  <2>4. row \in UserRow /\ row.name = userCall[c].name /\ row.email = userCall[c].email
        /\ row.secret = secret
    BY <1>3, <2>2, <2>3 DEF UserRow
  <2>5. users' = Append(users, row)
    BY <2>1, <2>3
  <2>6. PICK i : i = Len(users) + 1
    OBVIOUS
  <2>7. /\ users' \in Seq(UserRow) /\ Len(users') = i /\ users'[i] = row
        /\ i \in Nat /\ i \in 1 .. Len(users') /\ Len(users) <= Len(users')
        /\ i \notin DOMAIN users /\ \A j \in 1 .. Len(users') \ {i} : j \in DOMAIN users
        /\ \A j \in DOMAIN users : users'[j] = users[j]
    BY <1>1, <2>4, <2>5, <2>6
  <2>8. PICK k : k = [step |-> "settings", id |-> Len(users')]
    OBVIOUS
  <2>9. k \in UserCall /\ k.step = "settings" /\ k.id = i
    BY <2>7, <2>8 DEF UserCall, Registered
  <2>10. userCall' = [userCall EXCEPT ![c] = k]
    BY <2>1, <2>8
  <2>11. \A j \in DOMAIN users : users[j].name # users'[i].name
    BY <2>1, <2>4, <2>7 DEF A!ByName, A!Rows
  <2>12. users'[i].secret.kind \in {"hash", "cut"} /\ userCall[c].email = users'[i].email
    BY <2>2, <2>4, <2>7
  <2>13. k.id \in 1 .. Len(users') /\ patched \subseteq patched'
    BY <1>2, <2>7, <2>9
  <2>14. \A j \in DOMAIN users \ {i} : users'[j] = users[j] /\ users[j].name # users'[i].name
    BY <2>7, <2>11
  <2> QED
    BY <1>2, <2>7, <2>9, <2>10, <2>12, <2>13, <2>14, RowsOfAccounts
<1> QED
  BY <1>5, <1>6

(* A patch that saves the row it loaded, with one field changed, keeps it.  *)
LEMMA SavingPatchesKeeps ==
    ASSUME AccountsInv, NEW c \in Requests, A!SavePatch(c)
    PROVE  AccountsInv'
<1>1. /\ users \in Seq(UserRow) /\ userCall \in [Requests -> UserCall]
      /\ Len(users) \in Nat /\ DOMAIN users = 1 .. Len(users) /\ userCall[c] \in UserCall
      /\ session \in [Requests -> Nat] /\ \A d \in Requests : session[d] <= Len(users)
      /\ raced \in BOOLEAN
  BY DEF AccountsInv, AccountsShape
<1>2. userCall[c].step = "patch" /\ UNCHANGED <<session, raced>>
      /\ userCall' = [userCall EXCEPT ![c] = A!Idle]
  BY DEF A!SavePatch
<1>3. userCall[c] \in Patching /\ session[c] # 0 /\ session[c] \in DOMAIN users
  BY <1>1, <1>2, CallKinds DEF AccountsInv, AccountsShape
<1>4. A!Idle \in UserCall /\ A!Idle.step = "idle"
  BY DEF UserCall, A!Idle
<1>5. CASE UNCHANGED <<users, patched>>
  BY <1>1, <1>2, <1>4, <1>5, CallsOfAccounts
<1>6. CASE ~UNCHANGED <<users, patched>>
  <2>1. PICK i, row, field :
            /\ i = session[c] /\ field = userCall[c].field
            /\ row = A!Assign(userCall[c].user, userCall[c].field, userCall[c].value)
    OBVIOUS
  <2>2. /\ A!ByName(row.name) \subseteq {i} /\ users' = [users EXCEPT ![i] = row]
        /\ patched' = patched \union {<<i, field>>}
    BY <1>6, <2>1 DEF A!SavePatch
  <2>3. /\ row \in UserRow /\ i \in DOMAIN users
        /\ field # "email" => row.email = userCall[c].user.email
        /\ field # "password" => row.secret = userCall[c].user.secret
    BY <1>3, <2>1, AssignedRow
  <2>4. /\ users' \in Seq(UserRow) /\ Len(users') = Len(users) /\ users'[i] = row
        /\ i \in 1 .. Len(users') /\ \A j \in 1 .. Len(users') \ {i} : j \in DOMAIN users
        /\ \A j \in DOMAIN users \ {i} : users'[j] = users[j]
    BY <1>1, <2>2, <2>3
  <2>5. \A j \in DOMAIN users \ {i} : users[j].name # users'[i].name
    BY <2>2, <2>4 DEF A!ByName, A!Rows
  <2>6. /\ userCall[c].user.secret.kind \in {"hash", "cut"} \/ <<i, "password">> \in patched
        /\ userCall[c].user.email = users[i].email \/ <<i, "email">> \in patched
    BY <1>2, <2>1 DEF AccountsInv, LoadedOK, SecretOK
  <2>7. users'[i].secret.kind \in {"hash", "cut"} \/ <<i, "password">> \in patched'
    BY <2>2, <2>3, <2>4, <2>6
  <2>8. users'[i].email = users[i].email \/ <<i, "email">> \in patched'
    BY <2>2, <2>3, <2>4, <2>6
  <2>9. patched \subseteq patched' /\ Len(users) <= Len(users')
    BY <1>1, <2>2, <2>4
  <2> QED
    BY <1>2, <1>4, <2>3, <2>4, <2>5, <2>7, <2>8, <2>9, RowsOfAccounts
<1> QED
  BY <1>5, <1>6

(* Each request to register, to log in or out, and to patch keeps it.       *)
LEMMA AccountsKept == AccountsInv /\ [A!Next]_(A!vars) => AccountsInv'
<1> SUFFICES ASSUME AccountsInv, [A!Next]_(A!vars)
             PROVE  AccountsInv'
  OBVIOUS
<1>1. ASSUME UNCHANGED <<users, session, userCall, raced, patched>>
      PROVE  AccountsInv'
  BY <1>1 DEF AccountsInv, AccountsShape, RowsOK, SecretOK, LoadedOK, EmailsOK, Registers
<1>2. CASE UNCHANGED A!vars
  BY <1>1, <1>2 DEF A!vars
<1>3. CASE \E id \in A!Rows : A!NeedSettings(id)
  BY <1>1, <1>3 DEF A!NeedSettings
<1>4. CASE A!Crash
  <2>1. UNCHANGED <<users, session, raced, patched>>
        /\ userCall' = [c \in Requests |-> A!Idle]
    BY <1>4 DEF A!Crash
  <2>2. A!Idle \in UserCall /\ A!Idle.step = "idle"
    BY DEF UserCall, A!Idle
  <2>3. \A c \in Requests : userCall'[c].step = "idle"
    BY <2>1, <2>2
  <2>4. userCall' \in [Requests -> UserCall]
    BY <2>1, <2>2
  <2> QED
    BY <2>1, <2>3, <2>4 DEF AccountsInv, AccountsShape, RowsOK, SecretOK, LoadedOK, EmailsOK, Registers
<1> QED
  BY <1>2, <1>3, <1>4, RequestsKeepAccounts, SavingUsersKeeps, SavingPatchesKeeps DEF A!Next

(* So it holds of every behaviour of the services.                          *)
LEMMA AccountsInvariant == Spec => []AccountsInv
  BY AccountsStart, AccountsStep, AccountsKept, PTL DEF Spec

(* Who registered logs in, if neither the dot nor the patch broke the       *)
(* stored password and the username is not taken for an email.              *)
THEOREM OwnersLogIn == Spec => []OwnerLogsIn
<1>1. AccountsInv => A!OwnerLogsIn
  <2> SUFFICES ASSUME AccountsInv, NEW id \in DOMAIN users,
                      users[id].secret.kind # "cut", users[id].name \notin UserEmails,
                      <<id, "password">> \notin patched
               PROVE  /\ A!LogsIn(id, users[id].name, users[id].secret.of)
                      /\ A!Found(users[id].name) = {id}
    BY DEF A!OwnerLogsIn, A!Rows, UserEmails
  <2>1. users[id].secret.kind = "hash"
    BY DEF AccountsInv, RowsOK, SecretOK
  <2>2. A!Found(users[id].name) = {id}
    BY DEF AccountsInv, RowsOK, A!Found, A!ByName, A!Rows, UserEmails
  <2> QED
    BY <2>1, <2>2 DEF A!LogsIn, A!Matches
<1> QED
  BY <1>1, AccountsInvariant, PTL DEF OwnerLogsIn

(* An email has one account, unless registrations overlapped or the email   *)
(* of one of the accounts was patched.                                      *)
LEMMA EmailsHaveOneAccount == Spec => []A!OneAccountPerEmail
<1>1. AccountsInv => A!OneAccountPerEmail
  BY DEF AccountsInv, AccountsShape, EmailsOK, A!OneAccountPerEmail, A!Rows
<1> QED
  BY <1>1, AccountsInvariant, PTL

(* A patch writes its own field only, when no other row was saved since the *)
(* row was loaded.                                                          *)
THEOREM PatchesChangeTheirField == Spec => PatchChangesItsField
<1> DEFINE Own == \A c \in Requests :
         (A!SavePatch(c) /\ users' # users /\ userCall[c].user = users[session[c]])
            => users' = [users EXCEPT ![session[c]] =
                 CASE userCall[c].field = "name" -> [users[session[c]] EXCEPT !.name = userCall[c].value]
                   [] userCall[c].field = "email" -> [users[session[c]] EXCEPT !.email = userCall[c].value]
                   [] userCall[c].field = "password" -> [users[session[c]] EXCEPT !.secret = userCall[c].value]]
<1>1. AccountsInv => Own
  <2> SUFFICES ASSUME AccountsInv, NEW c \in Requests, A!SavePatch(c), users' # users,
                      userCall[c].user = users[session[c]]
               PROVE  users' = [users EXCEPT ![session[c]] =
                        A!Assign(users[session[c]], userCall[c].field, userCall[c].value)]
    BY DEF A!Assign
  <2> QED
    BY DEF A!SavePatch
<1> HIDE DEF Own
<1>2. Spec => [][Own]_(A!vars)
  BY <1>1, AccountsInvariant, AccountsStep, PTL DEF Spec
<1> QED
  BY <1>2 DEF Own, PatchChangesItsField, A!PatchChangesItsField

(***************************************************************************)
(* The categories.                                                         *)
(***************************************************************************)

(* A step of the system is one of the categories, or leaves them alone.     *)
LEMMA CategoriesStep == [Next]_vars => [C!Next]_(C!vars)
  BY DEF Next, Others, categoriesVars, vars, C!vars

(* Rows of categories, and the requests on them.                            *)
CategoryIds == {1, 2}
CategoryRow == [name : {"art", "war", "", "none", "gone"}, parent : Nat]
Adding == [step : {"add"}, name : {"art", "war"}, parent : Nat]
Updating == [step : {"update"}, id : CategoryIds, row : CategoryRow]
CategoryCall == {C!Idle} \union Adding \union Updating

CategoriesShape ==
    /\ categories \in [CategoryIds -> CategoryRow]
    /\ categoryCall \in [Requests -> CategoryCall]
    /\ overlapped \in BOOLEAN

(* No other row has the name that a request will save, unless it is empty.   *)
NameIsFree(name, but) == name = "" \/ \A id \in C!Present \ but : categories[id].name # name
CallNameOK(k) ==
    /\ k.step = "add" => NameIsFree(k.name, {})
    /\ k.step = "update" => NameIsFree(k.row.name, {k.id})

NamesOK == overlapped \/
    /\ \A r, s \in Requests : categoryCall[r] # C!Idle /\ categoryCall[s] # C!Idle => r = s
    /\ \A r \in Requests : CallNameOK(categoryCall[r])
    /\ \A id \in C!Present : NameIsFree(categories[id].name, {id})

CategoriesInv == CategoriesShape /\ NamesOK

(* There are no categories and no requests at the start.                    *)
LEMMA CategoriesStart == Init => CategoriesInv
<1> SUFFICES ASSUME C!Init
             PROVE  CategoriesInv
  BY DEF Init
<1>1. C!Unused \in CategoryRow
  BY DEF C!Unused, C!None, CategoryRow
<1>2. C!Idle \in CategoryCall /\ C!Idle.step = "idle"
  BY DEF C!Idle, CategoryCall
<1>3. categories = [id \in CategoryIds |-> C!Unused] /\ overlapped = FALSE
      /\ categoryCall = [r \in Requests |-> C!Idle]
  BY DEF C!Init, C!Ids, CategoryIds
<1>4. CategoriesShape
  <2>1. overlapped \in BOOLEAN
    BY <1>3
  <2>2. categories \in [CategoryIds -> CategoryRow] /\ categoryCall \in [Requests -> CategoryCall]
    BY <1>1, <1>2, <1>3
  <2> QED
    BY <2>1, <2>2 DEF CategoriesShape
<1>5. \A id \in CategoryIds : categories[id] = C!Unused
  BY <1>3
<1>6. C!Present = {}
  BY <1>5 DEF C!Present, C!Ids, CategoryIds
<1> QED
  BY <1>1, <1>2, <1>3, <1>4, <1>5, <1>6
  DEF CategoriesInv, NamesOK, CallNameOK, NameIsFree

(* What the kinds of requests are told apart by.                            *)
LEMMA CategoryCallKinds ==
    ASSUME NEW k \in CategoryCall
    PROVE  /\ C!Idle.step = "idle"
           /\ k.step = "add" => k \in Adding /\ k.name \in {"art", "war"} /\ k.parent \in Nat
           /\ k.step = "update" => /\ k \in Updating /\ k.id \in CategoryIds
                                   /\ k.row \in CategoryRow
<1>1. C!Idle.step = "idle"
  BY DEF C!Idle
<1>2. k \in Adding => k.step = "add" /\ k.name \in {"art", "war"} /\ k.parent \in Nat
  BY DEF Adding
<1>3. k \in Updating => k.step = "update" /\ k.id \in CategoryIds /\ k.row \in CategoryRow
  BY DEF Updating
<1> QED
  BY <1>1, <1>2, <1>3 DEF CategoryCall

(* A name that is free stays so while no row is added or renamed.            *)
LEMMA FreeNamesStay ==
    ASSUME C!Present' \subseteq C!Present,
           \A i \in C!Present' : categories'[i].name = categories[i].name,
           NEW name, NEW but, NameIsFree(name, but)
    PROVE  NameIsFree(name, but)'
<1>1. CASE name = ""
  BY <1>1 DEF NameIsFree
<1>2. CASE \A i \in C!Present \ but : categories[i].name # name
  BY <1>2 DEF NameIsFree
<1> QED
  BY <1>1, <1>2 DEF NameIsFree

LEMMA CallsStayOK ==
    ASSUME C!Present' \subseteq C!Present,
           \A i \in C!Present' : categories'[i].name = categories[i].name,
           NEW k, CallNameOK(k)
    PROVE  CallNameOK(k)'
<1>1. ASSUME k.step = "add"
      PROVE  NameIsFree(k.name, {})'
  BY <1>1, FreeNamesStay DEF CallNameOK
<1>2. ASSUME k.step = "update"
      PROVE  NameIsFree(k.row.name, {k.id})'
  BY <1>2, FreeNamesStay DEF CallNameOK
<1> QED
  BY <1>1, <1>2 DEF CallNameOK

(* Names stay apart when rows are only deleted and requests only end.        *)
LEMMA NamesCarryOver ==
    ASSUME NamesOK, UNCHANGED overlapped, C!Present' \subseteq C!Present,
           \A i \in C!Present' : categories'[i].name = categories[i].name,
           \A r \in Requests : categoryCall'[r] \in {C!Idle, categoryCall[r]}
    PROVE  NamesOK'
<1>1. CASE overlapped
  BY <1>1 DEF NamesOK
<1>2. CASE ~overlapped
  <2>1. ASSUME NEW r \in Requests, NEW s \in Requests,
               categoryCall'[r] # C!Idle, categoryCall'[s] # C!Idle
        PROVE  r = s
    BY <1>2, <2>1 DEF NamesOK
  <2>2. ASSUME NEW r \in Requests
        PROVE  CallNameOK(categoryCall[r])'
    <3>1. CASE categoryCall'[r] = C!Idle
      BY <3>1 DEF CallNameOK, C!Idle
    <3>2. CASE categoryCall'[r] = categoryCall[r]
      <4>1. PICK k : k = categoryCall[r]
        OBVIOUS
      <4>2. CallNameOK(k)
        BY <1>2, <4>1 DEF NamesOK
      <4>3. CallNameOK(k)'
        BY <4>2, CallsStayOK
      <4> QED
        BY <3>2, <4>1, <4>3 DEF CallNameOK, NameIsFree
    <3> QED
      BY <3>1, <3>2
  <2>3. ASSUME NEW i \in C!Present'
        PROVE  NameIsFree(categories[i].name, {i})'
    <3>1. PICK name : name = categories[i].name
      OBVIOUS
    <3>2. NameIsFree(name, {i})
      BY <1>2, <3>1 DEF NamesOK
    <3>3. NameIsFree(name, {i})'
      BY <3>2, FreeNamesStay
    <3> QED
      BY <3>1, <3>3 DEF NameIsFree
  <2> QED
    BY <2>1, <2>2, <2>3 DEF NamesOK
<1> QED
  BY <1>1, <1>2

(* A request that begins: alone, or the requests overlap.                   *)
LEMMA RequestsBegin ==
    ASSUME CategoriesInv, NEW r \in Requests, NEW k \in CategoryCall, C!Begin(r, k), C!Overlap(r),
           UNCHANGED categories,
           overlapped \/ CallNameOK(k)
    PROVE  CategoriesInv'
<1>1. /\ categoryCall \in [Requests -> CategoryCall]
      /\ categoryCall' = [categoryCall EXCEPT ![r] = k]
      /\ overlapped \in BOOLEAN
      /\ overlapped' = (overlapped \/ \E s \in Requests \ {r} : categoryCall[s] # C!Idle)
  BY DEF CategoriesInv, CategoriesShape, C!Begin, C!Overlap
<1>2. categoryCall'[r] = k /\ \A s \in Requests \ {r} : categoryCall'[s] = categoryCall[s]
  BY <1>1
<1>3. CategoriesShape'
  BY <1>1 DEF CategoriesInv, CategoriesShape
<1>4. NamesOK'
  <2> SUFFICES ASSUME ~overlapped'
               PROVE  NamesOK'
    BY <1>1 DEF NamesOK
  <2>1. ~overlapped /\ \A s \in Requests \ {r} : categoryCall[s] = C!Idle
    BY <1>1
  <2>2. C!Present' = C!Present
    BY DEF C!Present
  <2>3. \A s \in Requests : CallNameOK(categoryCall[s])
        /\ \A id \in C!Present : NameIsFree(categories[id].name, {id})
    BY <1>1, <2>1 DEF CategoriesInv, NamesOK
  <2>4. ASSUME NEW s \in Requests
        PROVE  CallNameOK(categoryCall[s])'
    BY <1>2, <2>1, <2>2, <2>3 DEF CallNameOK, NameIsFree
  <2> QED
    <3>1. ASSUME NEW s \in Requests, NEW o \in Requests,
                 categoryCall'[s] # C!Idle, categoryCall'[o] # C!Idle
          PROVE  s = o
      BY <1>2, <2>1, <3>1
    <3>2. ASSUME NEW id \in C!Present'
          PROVE  NameIsFree(categories[id].name, {id})'
      BY <2>2, <2>3, <3>2 DEF NameIsFree
    <3> QED
      BY <2>4, <3>1, <3>2 DEF NamesOK
<1> QED
  BY <1>3, <1>4 DEF CategoriesInv

(* A request that saves a row and ends.                                     *)
LEMMA RowsAreSaved ==
    ASSUME CategoriesInv, NEW r \in Requests, categoryCall[r] # C!Idle, C!Done(r),
           UNCHANGED overlapped,
           NEW id \in CategoryIds, NEW row \in CategoryRow,
           categories' = [categories EXCEPT ![id] = row],
           overlapped \/ NameIsFree(row.name, {id})
    PROVE  CategoriesInv'
<1>1. /\ categoryCall \in [Requests -> CategoryCall] /\ categories \in [CategoryIds -> CategoryRow]
      /\ categoryCall' = [categoryCall EXCEPT ![r] = C!Idle] /\ overlapped \in BOOLEAN
  BY DEF CategoriesInv, CategoriesShape, C!Done
<1>2. categoryCall'[r] = C!Idle /\ \A s \in Requests \ {r} : categoryCall'[s] = categoryCall[s]
  BY <1>1
<1>3. C!Idle \in CategoryCall /\ C!Idle.step = "idle"
  BY DEF C!Idle, CategoryCall
<1>4. categories'[id] = row /\ \A i \in CategoryIds \ {id} : categories'[i] = categories[i]
  BY <1>1
<1>5. CategoriesShape'
  BY <1>1, <1>3 DEF CategoriesInv, CategoriesShape
<1>6. NamesOK'
  <2> SUFFICES ASSUME ~overlapped
               PROVE  NamesOK'
    BY <1>1 DEF NamesOK
  <2>1. /\ \A s, t \in Requests : categoryCall[s] # C!Idle /\ categoryCall[t] # C!Idle => s = t
        /\ \A i \in C!Present : NameIsFree(categories[i].name, {i})
    BY <1>1 DEF CategoriesInv, NamesOK
  <2>2. \A s \in Requests : categoryCall'[s] = C!Idle
    BY <1>2, <2>1
  <2>3. C!Present' \ {id} \subseteq C!Present /\ C!Present' \subseteq CategoryIds
    BY <1>4 DEF C!Present, C!Ids, CategoryIds
  <2>4. ASSUME NEW i \in C!Present', NEW j \in C!Present' \ {i}
        PROVE  categories'[j].name # categories'[i].name \/ categories'[i].name = ""
    <3>1. CASE i = id
      <4>1. j \in C!Present \ {id}
        BY <2>3, <3>1
      <4> QED
        BY <1>4, <2>3, <3>1, <4>1 DEF NameIsFree
    <3>2. CASE j = id
      <4>1. i \in C!Present \ {id}
        BY <2>3, <3>2
      <4> QED
        BY <1>4, <2>3, <3>2, <4>1 DEF NameIsFree
    <3>3. CASE i # id /\ j # id
      <4>1. i \in C!Present /\ j \in C!Present \ {i}
        BY <2>3, <3>3
      <4> QED
        BY <1>4, <2>1, <2>3, <3>3, <4>1 DEF NameIsFree
    <3> QED
      BY <3>1, <3>2, <3>3
  <2>5. \A i \in C!Present' : NameIsFree(categories[i].name, {i})'
    BY <2>4 DEF NameIsFree
  <2> QED
    BY <1>3, <2>2, <2>5 DEF NamesOK, CallNameOK
<1> QED
  BY <1>5, <1>6 DEF CategoriesInv

(* A request that begins has found its name free.                           *)
LEMMA BeginningKeepsCategories ==
    ASSUME CategoriesInv, NEW r \in Requests,
           C!AddCategory(r) \/ C!UpdateCategory(r) \/ C!UploadCategoryIcon(r)
    PROVE  CategoriesInv'
<1>1. categories \in [CategoryIds -> CategoryRow] /\ overlapped \in BOOLEAN
      /\ C!Present \subseteq CategoryIds /\ C!Ids = CategoryIds
  BY DEF CategoriesInv, CategoriesShape, C!Present, C!Ids, CategoryIds
<1>2. CASE C!AddCategory(r)
  <2>1. PICK name \in {"art", "war"}, parent \in C!Present \union {0} :
            ~C!Taken(name) /\ C!Begin(r, [step |-> "add", name |-> name, parent |-> parent])
    BY <1>2 DEF C!AddCategory
  <2>2. PICK k : k = [step |-> "add", name |-> name, parent |-> parent]
    OBVIOUS
  <2>3. k \in CategoryCall /\ k.step = "add" /\ k.name = name
    <3>1. parent \in Nat
      BY <1>1 DEF CategoryIds
    <3> QED
      BY <2>2, <3>1 DEF CategoryCall, Adding
  <2>4. CallNameOK(k)
    BY <2>1, <2>3 DEF CallNameOK, NameIsFree, C!Taken
  <2>5. UNCHANGED categories /\ C!Overlap(r) /\ C!Begin(r, k)
    BY <1>2, <2>1, <2>2 DEF C!AddCategory
  <2> QED
    BY <2>3, <2>4, <2>5, RequestsBegin
<1>3. CASE C!UpdateCategory(r)
  <2>1. PICK id \in C!Present, name \in {"art", "war", "none", ""},
             parent \in CategoryIds \union {0}, moved \in BOOLEAN :
            /\ name \in {"art", "war"} => ~C!Taken(name)
            /\ \E row \in IF moved THEN C!Reparented(categories[id], parent) ELSE {categories[id]} :
                 C!Begin(r, [step |-> "update", id |-> id,
                             row |-> IF name = "none" THEN row ELSE [row EXCEPT !.name = name]])
    BY <1>1, <1>3 DEF C!UpdateCategory, C!None, C!Empty
  <2>2. PICK row : /\ row \in IF moved THEN C!Reparented(categories[id], parent) ELSE {categories[id]}
                   /\ C!Begin(r, [step |-> "update", id |-> id,
                             row |-> IF name = "none" THEN row ELSE [row EXCEPT !.name = name]])
    BY <2>1
  <2>3. categories[id] \in CategoryRow
    BY <1>1
  <2>4. row \in CategoryRow /\ row.name = categories[id].name
    <3>1. \A p \in Nat : LET new == [categories[id] EXCEPT !.parent = p] IN
              new \in CategoryRow /\ new.name = categories[id].name
      BY <2>3 DEF CategoryRow
    <3>2. row = categories[id] \/ \E p \in Nat : row = [categories[id] EXCEPT !.parent = p]
      BY <1>1, <2>2 DEF C!Reparented, CategoryIds
    <3> QED
      BY <2>3, <3>1, <3>2
  <2>5. PICK new : new = IF name = "none" THEN row ELSE [row EXCEPT !.name = name]
    OBVIOUS
  <2>6. new \in CategoryRow /\ new.name = IF name = "none" THEN row.name ELSE name
    BY <2>4, <2>5 DEF CategoryRow
  <2>7. PICK k : k = [step |-> "update", id |-> id, row |-> new]
    OBVIOUS
  <2>8. k \in CategoryCall /\ k.step = "update" /\ k.id = id /\ k.row = new
    BY <1>1, <2>6, <2>7 DEF CategoryCall, Updating
  <2>9. UNCHANGED categories /\ C!Overlap(r) /\ C!Begin(r, k)
    BY <1>3, <2>2, <2>5, <2>7 DEF C!UpdateCategory
  <2>10. ASSUME ~overlapped
         PROVE  CallNameOK(k)
    <3>1. NameIsFree(categories[id].name, {id})
      BY <1>1, <2>10 DEF CategoriesInv, NamesOK
    <3>2. name # "none" => NameIsFree(name, {id})
      BY <2>1 DEF C!Taken, NameIsFree
    <3> QED
      BY <2>4, <2>6, <2>8, <3>1, <3>2 DEF CallNameOK
  <2> QED
    BY <1>1, <2>8, <2>9, <2>10, RequestsBegin
<1>4. CASE C!UploadCategoryIcon(r)
  <2>1. PICK id \in C!Present : C!Begin(r, [step |-> "update", id |-> id, row |-> categories[id]])
    BY <1>4 DEF C!UploadCategoryIcon
  <2>2. PICK k : k = [step |-> "update", id |-> id, row |-> categories[id]]
    OBVIOUS
  <2>3. k \in CategoryCall /\ k.step = "update" /\ k.id = id /\ k.row = categories[id]
    BY <1>1, <2>2 DEF CategoryCall, Updating
  <2>4. UNCHANGED categories /\ C!Overlap(r) /\ C!Begin(r, k)
    BY <1>4, <2>1, <2>2 DEF C!UploadCategoryIcon
  <2>5. ASSUME ~overlapped
        PROVE  CallNameOK(k)
    <3>1. NameIsFree(categories[id].name, {id})
      BY <1>1, <2>5 DEF CategoriesInv, NamesOK
    <3> QED
      BY <2>3, <3>1 DEF CallNameOK
  <2> QED
    BY <1>1, <2>3, <2>4, <2>5, RequestsBegin
<1> QED
  BY <1>2, <1>3, <1>4

(* Requests that end and save nothing.                                      *)
LEMMA CategoryCallsEnd ==
    ASSUME CategoriesInv, UNCHANGED <<categories, overlapped>>,
           categoryCall' = [r \in Requests |-> categoryCall'[r]],
           \A r \in Requests : categoryCall'[r] \in {C!Idle, categoryCall[r]}
    PROVE  CategoriesInv'
<1>1. C!Idle \in CategoryCall /\ C!Idle.step = "idle"
  BY DEF C!Idle, CategoryCall
<1>2. CategoriesShape'
  <2>1. \A r \in Requests : categoryCall'[r] \in CategoryCall
    BY <1>1 DEF CategoriesInv, CategoriesShape
  <2>2. categoryCall' \in [Requests -> CategoryCall]
    BY <2>1
  <2> QED
    BY <2>2 DEF CategoriesInv, CategoriesShape
<1>3. C!Present' = C!Present
  BY DEF C!Present
<1>4. NamesOK'
  BY <1>3, NamesCarryOver DEF CategoriesInv
<1> QED
  BY <1>2, <1>4 DEF CategoriesInv

(* A row that is saved has, without overlaps, a name of its own.            *)
LEMMA SavingKeepsCategories ==
    ASSUME CategoriesInv, NEW r \in Requests, C!SaveCategory(r) \/ C!SaveUpdate(r)
    PROVE  CategoriesInv'
<1>1. /\ categories \in [CategoryIds -> CategoryRow] /\ C!Ids = CategoryIds
      /\ categoryCall \in [Requests -> CategoryCall] /\ categoryCall[r] \in CategoryCall
      /\ C!Done(r) /\ UNCHANGED overlapped /\ overlapped \in BOOLEAN
  BY DEF CategoriesInv, CategoriesShape, C!Ids, CategoryIds, C!SaveCategory, C!SaveUpdate
<1>2. CASE UNCHANGED categories
  <2>1. categoryCall' = [categoryCall EXCEPT ![r] = C!Idle]
    BY <1>1 DEF C!Done
  <2>2. categoryCall' = [s \in Requests |-> categoryCall'[s]]
        /\ \A s \in Requests : categoryCall'[s] \in {C!Idle, categoryCall[s]}
    BY <1>1, <2>1
  <2> QED
    BY <1>1, <1>2, <2>2, CategoryCallsEnd
<1>3. CASE C!SaveCategory(r) /\ categories' # categories
  <2>1. categoryCall[r].step = "add"
    BY <1>3 DEF C!SaveCategory
  <2>2. categoryCall[r].name \in {"art", "war"} /\ categoryCall[r].parent \in Nat
        /\ categoryCall[r] # C!Idle
    BY <1>1, <2>1, CategoryCallKinds
  <2>3a. PICK id \in CategoryIds : \E row :
            /\ row = [name |-> categoryCall[r].name, parent |-> categoryCall[r].parent]
            /\ categories' = [categories EXCEPT ![id] = row]
    BY <1>1, <1>3 DEF C!SaveCategory, C!None
  <2>3. PICK row :
            /\ row = [name |-> categoryCall[r].name, parent |-> categoryCall[r].parent]
            /\ categories' = [categories EXCEPT ![id] = row]
    BY <2>3a
  <2>4. row \in CategoryRow /\ row.name = categoryCall[r].name
    BY <2>2, <2>3 DEF CategoryRow
  <2>5. overlapped \/ NameIsFree(row.name, {id})
    BY <2>1, <2>4 DEF CategoriesInv, NamesOK, CallNameOK, NameIsFree
  <2> QED
    BY <1>1, <2>2, <2>3, <2>4, <2>5, RowsAreSaved
<1>4. CASE C!SaveUpdate(r) /\ categories' # categories
  <2>1. categoryCall[r].step = "update"
    BY <1>4 DEF C!SaveUpdate
  <2>2. PICK id \in CategoryIds, row \in CategoryRow :
            /\ id = categoryCall[r].id /\ row = categoryCall[r].row
            /\ categories' = [categories EXCEPT ![id] = row] /\ categoryCall[r] # C!Idle
    BY <1>1, <1>4, <2>1, CategoryCallKinds DEF C!SaveUpdate
  <2>3. overlapped \/ NameIsFree(row.name, {id})
    BY <2>1, <2>2 DEF CategoriesInv, NamesOK, CallNameOK
  <2> QED
    BY <1>1, <2>2, <2>3, RowsAreSaved
<1> QED
  BY <1>2, <1>3, <1>4

(* A category that is deleted leaves its name to nobody.                    *)
LEMMA DeletingKeepsCategories ==
    ASSUME CategoriesInv, NEW id \in CategoryIds, C!DeleteCategory(id)
    PROVE  CategoriesInv'
<1>1. /\ categories \in [CategoryIds -> CategoryRow] /\ C!Ids = CategoryIds
      /\ UNCHANGED <<categoryCall, overlapped>> /\ overlapped \in BOOLEAN
  BY DEF CategoriesInv, CategoriesShape, C!Ids, CategoryIds, C!DeleteCategory
<1>2. categories' = [i \in CategoryIds |->
                        IF i = id THEN C!Gone
                        ELSE IF categories[i].parent = id
                             THEN [categories[i] EXCEPT !.parent = 0] ELSE categories[i]]
  BY <1>1 DEF C!DeleteCategory
<1>3. C!Gone \in CategoryRow
  <2>1. C!Unused \in CategoryRow
    BY DEF C!Unused, C!None, CategoryRow
  <2> QED
    BY <2>1 DEF C!Gone, CategoryRow
<1>4. ASSUME NEW i \in CategoryIds \ {id}
      PROVE  /\ categories'[i] \in CategoryRow /\ categories'[i].name = categories[i].name
             /\ i \in C!Present' => i \in C!Present
  <2>1. categories[i] \in CategoryRow
    BY <1>1
  <2>2. PICK new : new = [categories[i] EXCEPT !.parent = 0]
    OBVIOUS
  <2>3. new \in CategoryRow /\ new.name = categories[i].name /\ new.parent = 0
    BY <2>1, <2>2 DEF CategoryRow
  <2>4. categories'[i] \in {new, categories[i]}
    BY <1>2, <2>2
  <2>5. categories[i] \in {C!Unused, C!Gone} => categories'[i] = categories[i]
    <3>1. C!Unused.parent = 0 /\ C!Gone.parent = 0
      BY DEF C!Unused, C!Gone
    <3> QED
      BY <1>2, <3>1 DEF CategoryIds
  <2> QED
    BY <1>1, <2>1, <2>3, <2>4, <2>5 DEF C!Present
<1>5. categories'[id] = C!Gone /\ C!Present' \subseteq C!Present \ {id}
  BY <1>1, <1>2, <1>4 DEF C!Present
<1>6. CategoriesShape'
  <2>1. \A i \in CategoryIds : categories'[i] \in CategoryRow
    BY <1>3, <1>4, <1>5
  <2>2. categories' \in [CategoryIds -> CategoryRow]
    BY <1>2, <2>1
  <2> QED
    BY <1>1, <2>2 DEF CategoriesInv, CategoriesShape
<1>7. NamesOK'
  <2>1. C!Present \subseteq CategoryIds
    BY <1>1 DEF C!Present
  <2>2. \A i \in C!Present' : categories'[i].name = categories[i].name
    BY <1>4, <1>5, <2>1
  <2> QED
    BY <1>1, <1>5, <2>2, NamesCarryOver DEF CategoriesInv
<1> QED
  BY <1>6, <1>7 DEF CategoriesInv

(* Each request on the categories keeps it.                                 *)
LEMMA CategoriesKept == CategoriesInv /\ [C!Next]_(C!vars) => CategoriesInv'
<1> SUFFICES ASSUME CategoriesInv, [C!Next]_(C!vars)
             PROVE  CategoriesInv'
  OBVIOUS
<1>0. categoryCall \in [Requests -> CategoryCall] /\ C!Ids = CategoryIds
  BY DEF CategoriesInv, CategoriesShape, C!Ids, CategoryIds
<1>1. CASE UNCHANGED C!vars
  <2>1. UNCHANGED <<categories, categoryCall, overlapped>>
    BY <1>1 DEF C!vars
  <2> QED
    BY <1>0, <2>1, CategoryCallsEnd
<1>2. CASE C!Crash
  <2>1. UNCHANGED <<categories, overlapped>>
        /\ categoryCall' = [r \in Requests |-> C!Idle]
    BY <1>2 DEF C!Crash
  <2> QED
    BY <2>1, CategoryCallsEnd
<1>3. ASSUME NEW id \in C!Ids, C!DeleteCategory(id)
      PROVE  CategoriesInv'
  BY <1>0, <1>3, DeletingKeepsCategories
<1> QED
  BY <1>1, <1>2, <1>3, BeginningKeepsCategories, SavingKeepsCategories DEF C!Next

(* So it holds of every behaviour of the services.                          *)
LEMMA CategoriesInvariant == Spec => []CategoriesInv
  BY CategoriesStart, CategoriesStep, CategoriesKept, PTL DEF Spec

(* Categories with a name have one of their own as long as requests do not   *)
(* overlap.                                                                 *)
LEMMA NamesOfCategoriesDiffer == Spec => []C!NamesDiffer
<1>1. CategoriesInv => C!NamesDiffer
  BY DEF CategoriesInv, CategoriesShape, NamesOK, NameIsFree, C!NamesDiffer, C!Empty
<1> QED
  BY <1>1, CategoriesInvariant, PTL

(***************************************************************************)
(* The outcomes of markets.                                                *)
(***************************************************************************)

(* A step of the system is one of the outcomes, or leaves them alone.       *)
LEMMA OutcomesStep == [Next]_vars => [O!Next]_(O!vars)
  BY DEF Next, Others, outcomesVars, vars, O!vars

(* A token has a row of its own or of others, among the rows there are, and *)
(* a market has no tokens while the request that creates it looks for them. *)
OutcomeRows == [title : {"yes", "no"}, icon : {"none", "f1", "f2"}]
TokensUpTo(n) == {<<>>} \union [1 .. 2 -> 1 .. n]
CallsUpTo(n) ==
    {[step |-> "idle"]} \union
        [step : {"outcomes"}, titles : [1 .. 2 -> {"yes", "no"}], rows : [1 .. 2 -> 0 .. n],
         missing : SUBSET (1 .. 2)]
OutcomesInv ==
    /\ outcomes \in Seq(OutcomeRows)
    /\ tokens \in [Requests -> TokensUpTo(Len(outcomes))]
    /\ marketCall \in [Requests -> CallsUpTo(Len(outcomes))]
    /\ \A m \in Requests : marketCall[m].step = "outcomes" => tokens[m] = <<>>

(* There are no rows, no tokens and no requests at the start.               *)
LEMMA OutcomesStart == Init => OutcomesInv
<1> SUFFICES ASSUME O!Init
             PROVE  OutcomesInv
  BY DEF Init
<1>1. /\ outcomes = <<>> /\ tokens = [m \in Requests |-> <<>>]
      /\ marketCall = [m \in Requests |-> [step |-> "idle"]]
  BY DEF O!Init, O!Idle
<1>2. outcomes \in Seq(OutcomeRows)
  BY <1>1
<1> QED
  BY <1>1, <1>2 DEF OutcomesInv, TokensUpTo, CallsUpTo

(* More rows fit what fewer did.                                            *)
LEMMA RowsStayRows ==
    ASSUME NEW n \in Nat, NEW k \in Nat, n <= k
    PROVE  TokensUpTo(n) \subseteq TokensUpTo(k) /\ CallsUpTo(n) \subseteq CallsUpTo(k)
<1>1. 1 .. n \subseteq 1 .. k /\ 0 .. n \subseteq 0 .. k
  OBVIOUS
<1>2. [1 .. 2 -> 1 .. n] \subseteq [1 .. 2 -> 1 .. k]
  BY <1>1
<1>3. [1 .. 2 -> 0 .. n] \subseteq [1 .. 2 -> 0 .. k]
  BY <1>1
<1>4. CallsUpTo(n) \subseteq CallsUpTo(k)
  BY <1>3 DEF CallsUpTo
<1> QED
  BY <1>2, <1>4 DEF TokensUpTo

(* A row is appended, and the others stay.                                  *)
LEMMA RowsAppended ==
    ASSUME OutcomesInv, NEW row \in OutcomeRows, outcomes' = Append(outcomes, row)
    PROVE  /\ outcomes' \in Seq(OutcomeRows) /\ Len(outcomes) \in Nat
           /\ Len(outcomes') = Len(outcomes) + 1
           /\ \A k \in 1 .. Len(outcomes) : outcomes'[k] = outcomes[k]
           /\ tokens \in [Requests -> TokensUpTo(Len(outcomes'))]
           /\ marketCall \in [Requests -> CallsUpTo(Len(outcomes'))]
<1>1. outcomes \in Seq(OutcomeRows) /\ Len(outcomes) \in Nat
  BY DEF OutcomesInv
<1>2. PICK all \in Seq(OutcomeRows) : all = Append(outcomes, row)
  BY <1>1
<1>3. outcomes' = all /\ Len(all) = Len(outcomes) + 1
  BY <1>1, <1>2
<1>4. \A k \in 1 .. Len(outcomes) : all[k] = outcomes[k]
  BY <1>1, <1>2
<1>5. Len(outcomes) + 1 \in Nat /\ Len(outcomes) <= Len(outcomes) + 1
  BY <1>1
<1>6. /\ TokensUpTo(Len(outcomes)) \subseteq TokensUpTo(Len(outcomes) + 1)
      /\ CallsUpTo(Len(outcomes)) \subseteq CallsUpTo(Len(outcomes) + 1)
  BY <1>1, <1>5, RowsStayRows
<1>7. /\ tokens \in [Requests -> TokensUpTo(Len(outcomes) + 1)]
      /\ marketCall \in [Requests -> CallsUpTo(Len(outcomes) + 1)]
  BY <1>6 DEF OutcomesInv
<1> QED
  BY <1>1, <1>3, <1>4, <1>7

(* Two tokens that show another icon than before are one.                   *)
Own ==
    \A m, other \in Requests : \A i \in DOMAIN tokens[m], j \in DOMAIN tokens[other] :
        (/\ outcomes'[tokens'[m][i]].icon # outcomes[tokens[m][i]].icon
         /\ outcomes'[tokens'[other][j]].icon # outcomes[tokens[other][j]].icon)
        => m = other /\ i = j

(* The fields of a request that looks for outcomes.                         *)
LEMMA CallFields ==
    ASSUME NEW n \in Nat, NEW c \in CallsUpTo(n), c.step = "outcomes"
    PROVE  /\ c.titles \in [1 .. 2 -> {"yes", "no"}] /\ c.rows \in [1 .. 2 -> 0 .. n]
           /\ c.missing \in SUBSET (1 .. 2)
           /\ c \in [step : {"outcomes"}, titles : [1 .. 2 -> {"yes", "no"}],
                     rows : [1 .. 2 -> 0 .. n], missing : SUBSET (1 .. 2)]
  BY DEF CallsUpTo

(* The tokens there are have rows there are.                                *)
LEMMA TokensHaveRows ==
    ASSUME OutcomesInv, NEW m \in Requests, NEW i \in DOMAIN tokens[m]
    PROVE  tokens[m] \in [1 .. 2 -> 1 .. Len(outcomes)] /\ i \in 1 .. 2
           /\ tokens[m][i] \in 1 .. Len(outcomes)
<1>1. tokens[m] \in TokensUpTo(Len(outcomes))
  BY DEF OutcomesInv
<1>2. tokens[m] # <<>>
  OBVIOUS
<1> QED
  BY <1>1, <1>2 DEF TokensUpTo

(* If outcomes and tokens change for one token at most, icons are its own.  *)
LEMMA OthersKeepRows ==
    ASSUME OutcomesInv, NEW where \in Requests, NEW at,
           \A m \in Requests : \A i \in DOMAIN tokens[m] :
               \/ m = where /\ i = at
               \/ /\ tokens'[m][i] = tokens[m][i]
                  /\ outcomes'[tokens[m][i]] = outcomes[tokens[m][i]]
    PROVE  Own
  BY DEF Own

(* A request goes on while the rows and the tokens stay.                    *)
LEMMA CallMoves ==
    ASSUME OutcomesInv, NEW m \in Requests, NEW c \in CallsUpTo(Len(outcomes)),
           marketCall' = [marketCall EXCEPT ![m] = c],
           c.step = "outcomes" => tokens[m] = <<>>,
           UNCHANGED <<outcomes, tokens>>
    PROVE  OutcomesInv' /\ Own
  BY DEF OutcomesInv, Own

(* Each step of a request and each upload keeps it, and changes icons of    *)
(* one token at most.                                                       *)
LEMMA OutcomesKept == OutcomesInv /\ [O!Next]_(O!vars) => OutcomesInv' /\ Own
<1> SUFFICES ASSUME OutcomesInv, [O!Next]_(O!vars)
             PROVE  OutcomesInv' /\ Own
  OBVIOUS
<1>0. outcomes \in Seq(OutcomeRows) /\ Len(outcomes) \in Nat
  BY DEF OutcomesInv
<1>a. \A m \in Requests : marketCall[m] \in CallsUpTo(Len(outcomes))
  BY DEF OutcomesInv
<1>1. ASSUME NEW m \in Requests, O!CreateMarket(m)
      PROVE  OutcomesInv' /\ Own
  <2>1. PICK titles \in [1 .. 2 -> {"yes", "no"}] :
            marketCall' = [marketCall EXCEPT ![m] =
                [step |-> "outcomes", titles |-> titles,
                 rows |-> [i \in DOMAIN titles |-> 0], missing |-> {}]]
    BY <1>1 DEF O!CreateMarket
  <2>2. [i \in DOMAIN titles |-> 0] \in [1 .. 2 -> 0 .. Len(outcomes)]
    BY <1>0
  <2>3. PICK rows \in [1 .. 2 -> 0 .. Len(outcomes)] : rows = [i \in DOMAIN titles |-> 0]
    BY <2>2
  <2>4. [step |-> "outcomes", titles |-> titles, rows |-> rows, missing |-> {}]
            \in CallsUpTo(Len(outcomes))
    BY DEF CallsUpTo
  <2>5. tokens[m] = <<>> /\ UNCHANGED <<outcomes, tokens>>
    BY <1>1 DEF O!CreateMarket
  <2> QED
    BY <2>1, <2>3, <2>4, <2>5, CallMoves
<1>2. ASSUME NEW m \in Requests, O!FindOutcome(m)
      PROVE  OutcomesInv' /\ Own
  <2>0. marketCall[m].step = "outcomes" /\ tokens[m] = <<>> /\ UNCHANGED <<outcomes, tokens>>
    BY <1>2 DEF O!FindOutcome, OutcomesInv
  <2>1. PICK c : c = marketCall[m]
    OBVIOUS
  <2>2. /\ c.titles \in [1 .. 2 -> {"yes", "no"}] /\ c.rows \in [1 .. 2 -> 0 .. Len(outcomes)]
        /\ c.missing \in SUBSET (1 .. 2)
        /\ c \in [step : {"outcomes"}, titles : [1 .. 2 -> {"yes", "no"}],
                  rows : [1 .. 2 -> 0 .. Len(outcomes)], missing : SUBSET (1 .. 2)]
    BY <1>0, <1>a, <2>0, <2>1, CallFields
  <2>3. PICK i \in DOMAIN c.titles \ c.missing :
            \/ marketCall' = [marketCall EXCEPT ![m].missing = @ \union {i}]
            \/ \E row \in O!Rows : marketCall' = [marketCall EXCEPT ![m].rows[i] = row]
    BY <1>2, <2>1 DEF O!FindOutcome, O!Fitting
  <2>4. i \in 1 .. 2
    BY <2>2
  <2>5. CASE marketCall' = [marketCall EXCEPT ![m].missing = @ \union {i}]
    <3>1. PICK k : k = [c EXCEPT !.missing = c.missing \union {i}]
      OBVIOUS
    <3>2. k \in [step : {"outcomes"}, titles : [1 .. 2 -> {"yes", "no"}],
                 rows : [1 .. 2 -> 0 .. Len(outcomes)], missing : SUBSET (1 .. 2)]
      BY <2>2, <2>4, <3>1
    <3>3. k \in CallsUpTo(Len(outcomes))
      BY <3>2 DEF CallsUpTo
    <3>4. marketCall' = [marketCall EXCEPT ![m] = k]
      BY <2>1, <2>5, <3>1
    <3> QED
      BY <2>0, <3>3, <3>4, CallMoves
  <2>6. CASE \E row \in O!Rows : marketCall' = [marketCall EXCEPT ![m].rows[i] = row]
    <3>1. PICK row \in O!Rows : marketCall' = [marketCall EXCEPT ![m].rows[i] = row]
      BY <2>6
    <3>2. row \in 0 .. Len(outcomes)
      BY <1>0 DEF O!Rows
    <3>3. PICK rows \in [1 .. 2 -> 0 .. Len(outcomes)] : rows = [c.rows EXCEPT ![i] = row]
      BY <2>2, <3>2
    <3>4. PICK k : k = [c EXCEPT !.rows = rows]
      OBVIOUS
    <3>5. k \in [step : {"outcomes"}, titles : [1 .. 2 -> {"yes", "no"}],
                 rows : [1 .. 2 -> 0 .. Len(outcomes)], missing : SUBSET (1 .. 2)]
      BY <2>2, <3>4
    <3>6. k \in CallsUpTo(Len(outcomes))
      BY <3>5 DEF CallsUpTo
    <3>7. marketCall' = [marketCall EXCEPT ![m] = k]
      BY <2>1, <3>1, <3>3, <3>4
    <3> QED
      BY <2>0, <3>6, <3>7, CallMoves
  <2> QED
    BY <2>3, <2>5, <2>6
<1>3. ASSUME NEW m \in Requests, O!SaveOutcome(m)
      PROVE  OutcomesInv' /\ Own
  <2>0. marketCall[m].step = "outcomes" /\ tokens[m] = <<>> /\ tokens' = tokens
    BY <1>3 DEF O!SaveOutcome, OutcomesInv
  <2>1. PICK c : c = marketCall[m]
    OBVIOUS
  <2>2. /\ c.titles \in [1 .. 2 -> {"yes", "no"}] /\ c.rows \in [1 .. 2 -> 0 .. Len(outcomes)]
        /\ c.missing \in SUBSET (1 .. 2)
        /\ c \in [step : {"outcomes"}, titles : [1 .. 2 -> {"yes", "no"}],
                  rows : [1 .. 2 -> 0 .. Len(outcomes)], missing : SUBSET (1 .. 2)]
    BY <1>0, <1>a, <2>0, <2>1, CallFields
  <2>3. PICK i \in c.missing :
            /\ outcomes' = Append(outcomes, [title |-> c.titles[i], icon |-> "none"])
            /\ marketCall' = [marketCall EXCEPT ![m].missing = @ \ {i},
                                                ![m].rows[i] = Len(outcomes')]
    BY <1>3, <2>1 DEF O!SaveOutcome, O!None
  <2>4. i \in 1 .. 2 /\ c.titles[i] \in {"yes", "no"}
    BY <2>2
  <2>5. PICK row \in OutcomeRows : row = [title |-> c.titles[i], icon |-> "none"]
    BY <2>4 DEF OutcomeRows
  <2>6. /\ outcomes' \in Seq(OutcomeRows)
        /\ Len(outcomes') = Len(outcomes) + 1
        /\ \A k \in 1 .. Len(outcomes) : outcomes'[k] = outcomes[k]
        /\ tokens \in [Requests -> TokensUpTo(Len(outcomes'))]
        /\ marketCall \in [Requests -> CallsUpTo(Len(outcomes'))]
    BY <2>3, <2>5, RowsAppended
  <2>7. PICK n \in Nat : n = Len(outcomes') /\ n = Len(outcomes) + 1
    BY <1>0, <2>6
  <2>8. c.rows \in [1 .. 2 -> 0 .. n]
    <3>1. 0 .. Len(outcomes) \subseteq 0 .. n
      BY <1>0, <2>7
    <3> QED
      BY <2>2, <3>1
  <2>9. PICK rows \in [1 .. 2 -> 0 .. n] : rows = [c.rows EXCEPT ![i] = n]
    <3>1. n \in 0 .. n
      BY <2>7
    <3>2. [c.rows EXCEPT ![i] = n] \in [1 .. 2 -> 0 .. n]
      BY <2>4, <2>8, <3>1
    <3> QED
      BY <3>2
  <2>10. PICK k : k = [c EXCEPT !.missing = c.missing \ {i}, !.rows = rows]
    OBVIOUS
  <2>11. k \in [step : {"outcomes"}, titles : [1 .. 2 -> {"yes", "no"}],
                rows : [1 .. 2 -> 0 .. n], missing : SUBSET (1 .. 2)]
    BY <2>2, <2>10
  <2>12. k \in CallsUpTo(n)
    BY <2>11 DEF CallsUpTo
  <2>13. marketCall' = [marketCall EXCEPT ![m] = k]
    <3>1. marketCall' = [marketCall EXCEPT ![m] =
                            [marketCall[m] EXCEPT !.missing = @ \ {i}, !.rows[i] = n]]
      BY <2>3, <2>7
    <3> QED
      BY <2>1, <2>9, <2>10, <3>1
  <2>14. marketCall' \in [Requests -> CallsUpTo(n)] /\ tokens' \in [Requests -> TokensUpTo(n)]
    BY <2>0, <2>6, <2>7, <2>12, <2>13
  <2>15. \A r \in Requests : marketCall'[r].step = "outcomes" => tokens'[r] = <<>>
    <3> SUFFICES ASSUME NEW r \in Requests, marketCall'[r].step = "outcomes"
                 PROVE  tokens'[r] = <<>>
      OBVIOUS
    <3>1. CASE r = m
      BY <2>0, <3>1
    <3>2. CASE r # m
      <4>1. marketCall'[r] = marketCall[r]
        BY <2>6, <2>13, <3>2
      <4> QED
        BY <2>0, <4>1 DEF OutcomesInv
    <3> QED
      BY <3>1, <3>2
  <2>16. OutcomesInv'
    BY <2>6, <2>7, <2>14, <2>15 DEF OutcomesInv
  <2>17. Own
    <3>1. \A r \in Requests : \A j \in DOMAIN tokens[r] :
              tokens'[r][j] = tokens[r][j]
              /\ outcomes'[tokens[r][j]] = outcomes[tokens[r][j]]
      BY <2>0, <2>6, TokensHaveRows
    <3> QED
      BY <3>1, OthersKeepRows
  <2> QED
    BY <2>16, <2>17
<1>4. ASSUME NEW m \in Requests, O!Deploy(m)
      PROVE  OutcomesInv' /\ Own
  <2>0. marketCall[m].step = "outcomes" /\ tokens[m] = <<>> /\ outcomes' = outcomes
    BY <1>4 DEF O!Deploy, OutcomesInv
  <2>1. PICK c : c = marketCall[m]
    OBVIOUS
  <2>2. c.rows \in [1 .. 2 -> 0 .. Len(outcomes)]
    BY <1>0, <1>a, <2>0, <2>1, CallFields
  <2>3. /\ \A i \in DOMAIN c.rows : c.rows[i] # 0
        /\ tokens' = [tokens EXCEPT ![m] = c.rows]
        /\ marketCall' = [marketCall EXCEPT ![m] = [step |-> "idle"]]
    BY <1>4, <2>1 DEF O!Deploy, O!Idle
  <2>4. c.rows \in [1 .. 2 -> 1 .. Len(outcomes)]
    <3>1. \A i \in 1 .. 2 : c.rows[i] \in 1 .. Len(outcomes)
      BY <1>0, <2>2, <2>3
    <3> QED
      BY <2>2, <3>1
  <2>5. PICK rows \in TokensUpTo(Len(outcomes)) : rows = c.rows
    BY <2>4 DEF TokensUpTo
  <2>6. tokens' = [tokens EXCEPT ![m] = rows]
    BY <2>3, <2>5
  <2>7. PICK idle \in CallsUpTo(Len(outcomes)) : idle = [step |-> "idle"] /\ idle.step # "outcomes"
    <3>1. [step |-> "idle"].step # "outcomes"
      OBVIOUS
    <3>2. [step |-> "idle"] \in CallsUpTo(Len(outcomes))
      BY DEF CallsUpTo
    <3> QED
      BY <3>1, <3>2
  <2>8. marketCall' = [marketCall EXCEPT ![m] = idle]
    BY <2>3, <2>7
  <2>9. OutcomesInv'
    BY <2>0, <2>6, <2>7, <2>8 DEF OutcomesInv
  <2>10. Own
    <3>1. \A r \in Requests : \A j \in DOMAIN tokens[r] : r # m /\ tokens'[r] = tokens[r]
      BY <2>0, <2>6 DEF OutcomesInv
    <3> QED
      BY <2>0, <3>1, OthersKeepRows
  <2> QED
    BY <2>9, <2>10
<1>5. ASSUME NEW m \in Requests, NEW i \in DOMAIN tokens[m], NEW file \in {"f1", "f2"},
             O!UploadOutcomeIcon(m, i, file)
      PROVE  OutcomesInv' /\ Own
  <2>1. /\ tokens[m] \in [1 .. 2 -> 1 .. Len(outcomes)] /\ i \in 1 .. 2
        /\ tokens[m][i] \in 1 .. Len(outcomes)
    BY <1>5, TokensHaveRows
  <2>2. PICK row \in OutcomeRows : row = [title |-> outcomes[tokens[m][i]].title, icon |-> file]
    <3>1. outcomes[tokens[m][i]] \in OutcomeRows
      BY <1>0, <2>1
    <3>2. outcomes[tokens[m][i]].title \in {"yes", "no"}
      BY <3>1 DEF OutcomeRows
    <3>3. [title |-> outcomes[tokens[m][i]].title, icon |-> file] \in OutcomeRows
      BY <1>5, <3>2 DEF OutcomeRows
    <3> QED
      BY <3>3
  <2>3. PICK at \in Nat : at = Len(outcomes) + 1
    BY <1>0
  <2>4. /\ outcomes' = Append(outcomes, row) /\ tokens' = [tokens EXCEPT ![m][i] = at]
        /\ marketCall' = marketCall
    BY <1>5, <2>2, <2>3 DEF O!UploadOutcomeIcon, O!Show
  <2>5. /\ outcomes' \in Seq(OutcomeRows)
        /\ Len(outcomes') = Len(outcomes) + 1
        /\ \A k \in 1 .. Len(outcomes) : outcomes'[k] = outcomes[k]
        /\ tokens \in [Requests -> TokensUpTo(Len(outcomes'))]
        /\ marketCall \in [Requests -> CallsUpTo(Len(outcomes'))]
    BY <2>4, RowsAppended
  <2>6. PICK rows : rows = [tokens[m] EXCEPT ![i] = at]
    OBVIOUS
  <2>7. rows \in TokensUpTo(at)
    <3>1. 1 .. Len(outcomes) \subseteq 1 .. at /\ at \in 1 .. at
      BY <1>0, <2>3
    <3>2. rows \in [1 .. 2 -> 1 .. at]
      BY <2>1, <2>6, <3>1
    <3> QED
      BY <3>2 DEF TokensUpTo
  <2>8. tokens' = [tokens EXCEPT ![m] = rows]
    BY <2>4, <2>6
  <2>9. tokens' \in [Requests -> TokensUpTo(at)]
    BY <2>3, <2>5, <2>7, <2>8
  <2>10. \A r \in Requests : marketCall'[r].step = "outcomes" => tokens'[r] = <<>>
    <3> SUFFICES ASSUME NEW r \in Requests, marketCall'[r].step = "outcomes"
                 PROVE  tokens'[r] = <<>>
      OBVIOUS
    <3>1. tokens[r] = <<>>
      BY <2>4 DEF OutcomesInv
    <3>2. r # m
      BY <1>5, <3>1
    <3> QED
      BY <2>5, <2>8, <3>1, <3>2
  <2>11. OutcomesInv'
    BY <2>3, <2>4, <2>5, <2>9, <2>10 DEF OutcomesInv
  <2>12. \A r \in Requests : \A j \in DOMAIN tokens[r] :
             \/ r = m /\ j = i
             \/ /\ tokens'[r][j] = tokens[r][j]
                /\ outcomes'[tokens[r][j]] = outcomes[tokens[r][j]]
    <3> SUFFICES ASSUME NEW r \in Requests, NEW j \in DOMAIN tokens[r], ~(r = m /\ j = i)
                 PROVE  /\ tokens'[r][j] = tokens[r][j]
                        /\ outcomes'[tokens[r][j]] = outcomes[tokens[r][j]]
      OBVIOUS
    <3>1. tokens[r][j] \in 1 .. Len(outcomes)
      BY TokensHaveRows
    <3>2. tokens'[r][j] = tokens[r][j]
      BY <2>5, <2>6, <2>8
    <3> QED
      BY <2>5, <3>1, <3>2
  <2> QED
    BY <2>11, <2>12, OthersKeepRows
<1>6. CASE O!Crash
  <2>1. UNCHANGED <<outcomes, tokens>> /\ marketCall' = [m \in Requests |-> [step |-> "idle"]]
    BY <1>6 DEF O!Crash, O!Idle
  <2>2. marketCall' \in [Requests -> CallsUpTo(Len(outcomes))]
    BY <2>1 DEF CallsUpTo
  <2>3. \A m \in Requests : marketCall'[m].step = "idle"
    BY <2>1
  <2>4. OutcomesInv'
    BY <2>1, <2>2, <2>3 DEF OutcomesInv
  <2> QED
    BY <2>1, <2>4 DEF Own
<1>7. CASE UNCHANGED O!vars
  BY <1>7 DEF O!vars, OutcomesInv, Own
<1> QED
  BY <1>1, <1>2, <1>3, <1>4, <1>5, <1>6, <1>7 DEF O!Next

(* An icon uploaded for a token changes what no other token shows, whatever *)
(* rows the markets share.                                                  *)
THEOREM UploadedIconsAreOwn == Spec => O!IconsAreOwn
<1>1. OutcomesInv /\ [Next]_vars => OutcomesInv' /\ Own
  BY OutcomesStep, OutcomesKept
<1>2. Own => [Own]_(O!vars)
  OBVIOUS
<1>3. Init => OutcomesInv
  BY OutcomesStart
<1>4. Spec => [][Own]_(O!vars)
  BY <1>1, <1>2, <1>3, PTL DEF Spec
<1> QED
  BY <1>4 DEF Own, O!IconsAreOwn

(* The sets of two outcomes, as the inner loop makes them.                   *)
LEMMA SetsOfPairs ==
    /\ O!SetsFrom(0, 2) = <<{0}, {1}>>
    /\ O!SetsFrom(1, 2) = <<{0, 1}>>
<1>1. 0 .. 0 - 1 = {} /\ 0 .. 1 - 1 = {0}
  OBVIOUS
<1>2. O!SetsFrom(0, 2) = [j \in 1 .. 2 |-> {j - 1}]
  <2>1. O!SetsFrom(0, 2) = [j \in 1 .. 2 - 0 |-> (0 .. 0 - 1) \union {0 + j - 1}]
    BY DEF O!SetsFrom
  <2>2. 2 - 0 = 2 /\ \A j \in 1 .. 2 : (0 .. 0 - 1) \union {0 + j - 1} = {j - 1}
    BY <1>1
  <2> QED
    BY <2>1, <2>2
<1>3. O!SetsFrom(1, 2) = [j \in 1 .. 1 |-> {0, 1}]
  <2>1. O!SetsFrom(1, 2) = [j \in 1 .. 2 - 1 |-> (0 .. 1 - 1) \union {1 + j - 1}]
    BY DEF O!SetsFrom
  <2>2. 2 - 1 = 1 /\ \A j \in 1 .. 1 : (0 .. 1 - 1) \union {1 + j - 1} = {0, 1}
    BY <1>1
  <2> QED
    BY <2>1, <2>2
<1>4. [j \in 1 .. 2 |-> {j - 1}] = <<{0}, {1}>>
  OBVIOUS
<1>5. [j \in 1 .. 1 |-> {0, 1}] = <<{0, 1}>>
  OBVIOUS
<1> QED
  BY <1>2, <1>3, <1>4, <1>5

(* Put one after the other.                                                 *)
LEMMA SetsJoined ==
    <<{0, 1}>> = <<{0, 1}>> \o <<>> /\ <<{0}, {1}, {0, 1}>> = <<{0}, {1}>> \o <<{0, 1}>>
  OBVIOUS

(* What the recursion of the loops defines: the sets from an outcome on.     *)
IsSets(f) == f = [i \in 0 .. 2 |-> IF i = 2 THEN <<>> ELSE O!SetsFrom(i, 2) \o f[i + 1]]

(* So the recursion of the loops gives the collections of a pair.            *)
LEMMA PossiblePairs ==
    O!Possible(2) = [k \in 0 .. 3 |-> IF k = 1 THEN {0} ELSE IF k = 2 THEN {1} ELSE
                                      IF k = 3 THEN {0, 1} ELSE {}]
<1>1. \E f : IsSets(f)
  <2> DEFINE f == [i \in 0 .. 2 |-> IF i = 2 THEN <<>> ELSE IF i = 1 THEN <<{0, 1}>>
                                    ELSE <<{0}, {1}, {0, 1}>>]
  <2>1. 0 \in 0 .. 2 /\ 1 \in 0 .. 2 /\ 2 \in 0 .. 2 /\ 1 # 2 /\ 0 # 2 /\ 0 # 1
    OBVIOUS
  <2>2. f[2] = <<>> /\ f[1] = <<{0, 1}>> /\ f[0] = <<{0}, {1}, {0, 1}>>
    BY <2>1
  <2>4. f[1] = O!SetsFrom(1, 2) \o f[2] /\ f[0] = O!SetsFrom(0, 2) \o f[1]
    <3> HIDE DEF f
    <3> QED
      BY <2>2, SetsJoined, SetsOfPairs, Zenon
  <2>5. 1 + 1 = 2 /\ 0 + 1 = 1
    OBVIOUS
  <2>6. f[1] = O!SetsFrom(1, 2) \o f[1 + 1] /\ f[0] = O!SetsFrom(0, 2) \o f[0 + 1]
    <3> HIDE DEF f
    <3> QED
      BY <2>4, <2>5, Zenon
  <2>7. \A i \in 0 .. 2 : i = 0 \/ i = 1 \/ i = 2
    OBVIOUS
  <2>8. ASSUME NEW i \in 0 .. 2
        PROVE  f[i] = IF i = 2 THEN <<>> ELSE O!SetsFrom(i, 2) \o f[i + 1]
    <3>1. CASE i = 2
      <4> HIDE DEF f
      <4> QED
        BY <2>2, <3>1, Zenon
    <3>2. CASE i = 1
      <4> HIDE DEF f
      <4> QED
        BY <2>1, <2>6, <3>2, Zenon
    <3>3. CASE i = 0
      <4> HIDE DEF f
      <4> QED
        BY <2>1, <2>6, <3>3, Zenon
    <3> QED
      BY <2>7, <2>8, <3>1, <3>2, <3>3, Zenon
  <2>9. f = [i \in 0 .. 2 |-> f[i]]
    OBVIOUS
  <2>10. f = [i \in 0 .. 2 |-> IF i = 2 THEN <<>> ELSE O!SetsFrom(i, 2) \o f[i + 1]]
    <3> HIDE DEF f
    <3> QED
      BY <2>8, <2>9, Zenon
  <2> QED
    BY <2>10, Zenon DEF IsSets
<1>2. PICK sets : sets = CHOOSE f : IsSets(f)
  OBVIOUS
<1>3. IsSets(sets)
  BY <1>1, <1>2
<1>4. O!Possible(2) = [k \in 0 .. 2 ^ 2 - 1 |-> IF k \in DOMAIN sets[0] THEN sets[0][k] ELSE {}]
  BY <1>2 DEF O!Possible, IsSets
<1>5. sets[0] = <<{0}, {1}, {0, 1}>>
  <2>1. 0 \in 0 .. 2 /\ 1 \in 0 .. 2 /\ 2 \in 0 .. 2 /\ 1 # 2 /\ 0 # 2 /\ 1 + 1 = 2 /\ 0 + 1 = 1
    OBVIOUS
  <2>2. \A i \in 0 .. 2 : sets[i] = IF i = 2 THEN <<>> ELSE O!SetsFrom(i, 2) \o sets[i + 1]
    BY <1>3, Zenon DEF IsSets
  <2>3. sets[2] = <<>>
    BY <2>1, <2>2, Zenon
  <2>4. sets[1] = O!SetsFrom(1, 2) \o sets[2] /\ sets[0] = O!SetsFrom(0, 2) \o sets[1]
    BY <2>1, <2>2, Zenon
  <2>5. sets[0] = <<{0}, {1}>> \o (<<{0, 1}>> \o <<>>)
    BY <2>3, <2>4, SetsOfPairs, Zenon
  <2> QED
    BY <2>5, SetsJoined, Zenon
<1>6. 2 ^ 2 - 1 = 3
  OBVIOUS
<1>7. DOMAIN sets[0] = 1 .. 3 /\ sets[0][1] = {0} /\ sets[0][2] = {1} /\ sets[0][3] = {0, 1}
  BY <1>5
<1> QED
  BY <1>4, <1>6, <1>7

(* A market that has tokens has the collections of a pair.                   *)
CollectionsInv ==
    /\ collections = [m \in Requests |-> collections[m]]
    /\ \A m \in Requests : tokens[m] # <<>> => collections[m] = O!Possible(2)

(* No market has tokens at the start.                                       *)
LEMMA CollectionsStart == Init => CollectionsInv
  BY DEF Init, O!Init, CollectionsInv

(* A market is given its collections with its tokens; then both keep length. *)
LEMMA CollectionsKept ==
    OutcomesInv /\ OutcomesInv' /\ CollectionsInv /\ [O!Next]_(O!vars) => CollectionsInv'
<1> SUFFICES ASSUME OutcomesInv, OutcomesInv', CollectionsInv, [O!Next]_(O!vars)
             PROVE  CollectionsInv'
  OBVIOUS
<1>0. tokens \in [Requests -> TokensUpTo(Len(outcomes))]
  BY DEF OutcomesInv
<1>1. CASE UNCHANGED <<tokens, collections>>
  BY <1>1 DEF CollectionsInv
<1>2. ASSUME NEW m \in Requests, O!Deploy(m)
      PROVE  CollectionsInv'
  <2>1. /\ marketCall[m].step = "outcomes"
        /\ tokens' = [tokens EXCEPT ![m] = marketCall[m].rows]
        /\ collections' = [collections EXCEPT ![m] = O!Possible(Len(tokens'[m]))]
    BY <1>2 DEF O!Deploy
  <2>2. marketCall[m] \in CallsUpTo(Len(outcomes)) /\ Len(outcomes) \in Nat
    BY DEF OutcomesInv
  <2>3. marketCall[m].rows \in [1 .. 2 -> 0 .. Len(outcomes)]
    BY <2>1, <2>2, CallFields
  <2>4. Len(marketCall[m].rows) = 2
    BY <2>3
  <2>5. Len(tokens'[m]) = 2
    BY <1>0, <2>1, <2>4
  <2>6. collections' = [collections EXCEPT ![m] = O!Possible(2)]
    BY <2>1, <2>5
  <2>7. \A r \in Requests : r # m => tokens'[r] = tokens[r] /\ collections'[r] = collections[r]
    BY <1>0, <2>1, <2>6 DEF CollectionsInv
  <2>8. collections'[m] = O!Possible(2) /\ collections' = [r \in Requests |-> collections'[r]]
    BY <2>6 DEF CollectionsInv
  <2> QED
    BY <2>7, <2>8 DEF CollectionsInv
<1>3. ASSUME NEW m \in Requests, NEW i \in DOMAIN tokens[m], NEW file \in {"f1", "f2"},
             O!UploadOutcomeIcon(m, i, file)
      PROVE  CollectionsInv'
  <2>1. PICK at : tokens' = [tokens EXCEPT ![m][i] = at]
    BY <1>3 DEF O!UploadOutcomeIcon
  <2>2. collections' = collections
    BY <1>3 DEF O!UploadOutcomeIcon
  <2>3. \A r \in Requests : tokens'[r] # <<>> => tokens[r] # <<>>
    <3> SUFFICES ASSUME NEW r \in Requests, tokens[r] = <<>>
                 PROVE  tokens'[r] = <<>>
      OBVIOUS
    <3>1. r # m
      BY <1>3
    <3> QED
      BY <1>0, <2>1, <3>1
  <2> QED
    BY <2>2, <2>3 DEF CollectionsInv
<1>4. CASE O!Crash
  BY <1>1, <1>4 DEF O!Crash
<1>5. ASSUME NEW m \in Requests, O!CreateMarket(m) \/ O!FindOutcome(m) \/ O!SaveOutcome(m)
      PROVE  CollectionsInv'
  BY <1>1, <1>5 DEF O!CreateMarket, O!FindOutcome, O!SaveOutcome
<1>6. CASE UNCHANGED O!vars
  BY <1>1, <1>6 DEF O!vars
<1> QED
  BY <1>2, <1>3, <1>4, <1>5, <1>6 DEF O!Next

(* The possible outcomes of a collection of a market with two are those     *)
(* whose bits are set in its index.                                         *)
THEOREM PairsHaveTheirBits == Spec => []PairsFollowBits
<1>1. ASSUME OutcomesInv, CollectionsInv
      PROVE  PairsFollowBits
  <2> SUFFICES ASSUME NEW m \in Requests, Len(tokens[m]) = 2, NEW k \in DOMAIN collections[m]
               PROVE  O!HoldsBits(m, k)
    BY DEF PairsFollowBits, O!PairsFollowBits
  <2>1. tokens[m] # <<>>
    OBVIOUS
  <2>2. collections[m] = O!Possible(2)
    BY <1>1, <2>1 DEF CollectionsInv
  <2>3. k \in 0 .. 3
    BY <2>2, PossiblePairs
  <2>4. collections[m][k] = IF k = 1 THEN {0} ELSE IF k = 2 THEN {1} ELSE
                            IF k = 3 THEN {0, 1} ELSE {}
    BY <2>2, <2>3, PossiblePairs
  <2>5. 2 ^ 0 = 1 /\ 2 ^ 1 = 2
    OBVIOUS
  <2>6. 0 .. Len(tokens[m]) - 1 = {0, 1}
    OBVIOUS
  <2>7. /\ (k \div 1) % 2 = 1 <=> k \in {1, 3}
        /\ (k \div 2) % 2 = 1 <=> k \in {2, 3}
    BY <2>3
  <2>8. 0 \in collections[m][k] <=> k \in {1, 3}
    BY <2>3, <2>4
  <2>9. 1 \in collections[m][k] <=> k \in {2, 3}
    BY <2>3, <2>4
  <2>10. collections[m][k] \subseteq {0, 1}
    BY <2>3, <2>4
  <2>11. \A i \in {0, 1} : i \in collections[m][k] <=> (k \div 2 ^ i) % 2 = 1
    BY <2>5, <2>7, <2>8, <2>9
  <2> QED
    BY <2>6, <2>10, <2>11 DEF O!HoldsBits
<1>2. Init => OutcomesInv /\ CollectionsInv
  BY OutcomesStart, CollectionsStart
<1>3. OutcomesInv /\ CollectionsInv /\ [Next]_vars => OutcomesInv' /\ CollectionsInv'
  BY OutcomesStep, OutcomesKept, CollectionsKept
<1> QED
  BY <1>1, <1>2, <1>3, PTL DEF Spec

(***************************************************************************)
(* The notices.                                                            *)
(***************************************************************************)

(* A step of the system is one of the notices, or leaves them alone.        *)
LEMMA NoticesStep == [Next]_vars => [N!Next]_(N!vars)
  BY DEF Next, Others, notificationsVars, vars, N!vars

(* A letter waits for a user who has web push on, or had when the round     *)
(* began and has changed a setting since.                                   *)
Letters == [to : Users, seen : SUBSET N!Switches, prize : Nat, ready : BOOLEAN]
NoticesInv ==
    /\ switches \in [Users -> SUBSET N!Switches] /\ winning \in [Users -> Nat]
    /\ round \in [kind : N!Kinds \union {"none"}, letters : SUBSET Letters]
    /\ \A l \in round.letters :
          round.kind = "forcedNews" \/ "push" \in switches[l.to] \/ l.to \in changed

(* There is no round at the start.                                          *)
LEMMA NoticesStart == Init => NoticesInv
<1> SUFFICES ASSUME N!Init
             PROVE  NoticesInv
  BY DEF Init
<1>1. switches \in [Users -> SUBSET N!Switches] /\ winning \in [Users -> Nat]
  <2>1. N!Switches \ {"email"} \subseteq N!Switches /\ N!Switches \ {"push"} \subseteq N!Switches
        /\ {"push"} \subseteq N!Switches
    BY DEF N!Switches
  <2>2. switches \in [Users -> {N!Switches, N!Switches \ {"email"}, N!Switches \ {"push"}, {"push"}}]
        /\ winning \in [Users -> 0 .. 1]
    BY DEF N!Init
  <2> QED
    BY <2>1, <2>2
<1>2. round = N!NoRound /\ N!NoRound.letters = {}
      /\ N!NoRound \in [kind : N!Kinds \union {"none"}, letters : SUBSET Letters]
  BY DEF N!Init, N!NoRound
<1> QED
  BY <1>1, <1>2 DEF NoticesInv

(* A round that loses a letter, or is over.                                 *)
LEMMA LettersLeave ==
    ASSUME NoticesInv, UNCHANGED <<switches, winning, changed>>,
           \/ round' = N!NoRound
           \/ \E rest \in SUBSET Letters :
                 /\ round' = [round EXCEPT !.letters = rest]
                 /\ \A l \in rest : \E k \in round.letters : l.to = k.to
    PROVE  NoticesInv'
<1>1. CASE round' = N!NoRound
  <2>1. N!NoRound.letters = {}
        /\ N!NoRound \in [kind : N!Kinds \union {"none"}, letters : SUBSET Letters]
    BY DEF N!NoRound
  <2> QED
    BY <1>1, <2>1 DEF NoticesInv
<1>2. ASSUME NEW rest \in SUBSET Letters, round' = [round EXCEPT !.letters = rest],
             \A l \in rest : \E k \in round.letters : l.to = k.to
      PROVE  NoticesInv'
  <2>1. PICK new : new = [round EXCEPT !.letters = rest]
    OBVIOUS
  <2>2. round \in [kind : N!Kinds \union {"none"}, letters : SUBSET Letters]
    BY DEF NoticesInv
  <2>3. new \in [kind : N!Kinds \union {"none"}, letters : SUBSET Letters]
        /\ new.letters = rest /\ new.kind = round.kind
    BY <2>1, <2>2
  <2>4. round' = new
    BY <1>2, <2>1
  <2> QED
    BY <1>2, <2>3, <2>4 DEF NoticesInv
<1> QED
  BY <1>1, <1>2

(* Each step of a round, of the users' settings and of their winnings keeps *)
(* it.                                                                      *)
LEMMA NoticesKept == NoticesInv /\ [N!Next]_(N!vars) => NoticesInv'
<1> SUFFICES ASSUME NoticesInv, [N!Next]_(N!vars)
             PROVE  NoticesInv'
  OBVIOUS
<1>0. /\ switches \in [Users -> SUBSET N!Switches] /\ winning \in [Users -> Nat]
      /\ round \in [kind : N!Kinds \union {"none"}, letters : SUBSET Letters]
      /\ round.letters \subseteq Letters
  BY DEF NoticesInv
<1>1. CASE UNCHANGED N!vars
  <2>1. UNCHANGED <<switches, winning, round, changed>>
    BY <1>1 DEF N!vars
  <2> QED
    BY <2>1 DEF NoticesInv
<1>2. CASE N!EndEmpty
  BY <1>2, LettersLeave DEF N!EndEmpty
<1>3. ASSUME NEW kind \in N!Kinds, NEW to \in SUBSET Users, N!BeginRound(kind, to)
      PROVE  NoticesInv'
  <2> DEFINE Wanting == {v \in to : N!Wants(switches[v], kind)}
             letter(u) == [to |-> u, seen |-> switches[u], prize |-> 0, ready |-> kind # "won"]
  <2>1. round' = [kind |-> kind, letters |-> {letter(u) : u \in Wanting}]
        /\ UNCHANGED <<switches, winning>>
    BY <1>3 DEF N!BeginRound
  <2>2. \A u \in Wanting : letter(u) \in Letters /\ letter(u).to = u
    BY <1>0 DEF Letters
  <2>3. \A u \in Wanting : kind = "forcedNews" \/ "push" \in switches[u]
    BY DEF N!Wants
  <2> HIDE DEF letter
  <2>4. {letter(u) : u \in Wanting} \subseteq Letters
    BY <2>2
  <2>5. round'.kind = kind /\ round'.letters = {letter(u) : u \in Wanting}
        /\ round' \in [kind : N!Kinds \union {"none"}, letters : SUBSET Letters]
    BY <2>1, <2>4
  <2>6. \A l \in round'.letters : kind = "forcedNews" \/ "push" \in switches[l.to]
    BY <2>2, <2>3, <2>5
  <2> QED
    BY <1>0, <2>1, <2>5, <2>6 DEF NoticesInv
<1>4. ASSUME NEW l \in round.letters, N!ReadBalance(l)
      PROVE  NoticesInv'
  <2>1. UNCHANGED <<switches, winning, changed>>
    BY <1>4 DEF N!ReadBalance
  <2>2. PICK m : m = [l EXCEPT !.prize = N!Prize(l.to), !.ready = TRUE]
    OBVIOUS
  <2>3. l \in Letters
    BY <1>0, <1>4
  <2>4. N!Prize(l.to) \in Nat
    <3>1. l.to \in Users
      BY <2>3 DEF Letters
    <3> QED
      BY <1>0, <3>1 DEF N!Prize
  <2>5. m \in Letters /\ m.to = l.to
    BY <2>2, <2>3, <2>4 DEF Letters
  <2>6. \/ round' = N!NoRound
        \/ round' = [round EXCEPT !.letters = (round.letters \ {l}) \union {m}]
        \/ round' = [round EXCEPT !.letters = round.letters \ {l}]
    BY <1>4, <2>2 DEF N!ReadBalance
  <2>7. /\ (round.letters \ {l}) \union {m} \in SUBSET Letters
        /\ \A n \in (round.letters \ {l}) \union {m} : \E k \in round.letters : n.to = k.to
        /\ round.letters \ {l} \in SUBSET Letters
        /\ \A n \in round.letters \ {l} : \E k \in round.letters : n.to = k.to
    BY <1>0, <1>4, <2>5
  <2> QED
    BY <2>1, <2>6, <2>7, LettersLeave
<1>5. ASSUME NEW l \in round.letters, N!Push(l)
      PROVE  NoticesInv'
  <2>1. UNCHANGED <<switches, winning, changed>>
        /\ \/ round' = N!NoRound
           \/ round' = [round EXCEPT !.letters = round.letters \ {l}]
    BY <1>5 DEF N!Push
  <2>2. /\ round.letters \ {l} \in SUBSET Letters
        /\ \A n \in round.letters \ {l} : \E k \in round.letters : n.to = k.to
    BY <1>0
  <2> QED
    BY <2>1, <2>2, LettersLeave
<1>6. ASSUME NEW u \in Users, NEW s \in {"push", "won"}, N!Change(u, s)
      PROVE  NoticesInv'
  <2>1. UNCHANGED <<winning, round>> /\ changed' = changed \union {u}
        /\ switches' = [switches EXCEPT ![u] = IF s \in @ THEN @ \ {s} ELSE @ \union {s}]
    BY <1>6 DEF N!Change
  <2>2. s \in N!Switches
    BY DEF N!Switches, N!Kinds
  <2>3. switches' \in [Users -> SUBSET N!Switches]
        /\ \A v \in Users \ {u} : switches'[v] = switches[v]
    BY <1>0, <2>1, <2>2
  <2>4. \A l \in round.letters : l.to \in Users
    BY <1>0 DEF Letters
  <2> QED
    BY <1>0, <2>1, <2>3, <2>4 DEF NoticesInv
<1>7. ASSUME NEW u \in Users, N!Redeem(u)
      PROVE  NoticesInv'
  <2>1. UNCHANGED <<switches, round, changed>> /\ winning' = [winning EXCEPT ![u] = 0]
    BY <1>7 DEF N!Redeem
  <2>2. winning' \in [Users -> Nat]
    BY <1>0, <2>1
  <2> QED
    BY <1>0, <2>1, <2>2 DEF NoticesInv
<1>8. {"resolved", "won", "news", "forcedNews", "deposit"} \subseteq N!Kinds
  BY DEF N!Kinds
<1> QED
  BY <1>1, <1>2, <1>3, <1>4, <1>5, <1>6, <1>7, <1>8 DEF N!Next

(* Who has web push off gets no notice, but for news sent by force and for  *)
(* rounds that had read the user's settings before a change.                *)
THEOREM OnlyWantedNoticesAreSent == Spec => OnlyWanted
<1> DEFINE Wanted == \A n \in pushed' \ pushed :
               n.kind # "forcedNews" => "push" \in switches[n.to] \/ n.to \in changed
<1>1. NoticesInv /\ N!Next => Wanted
  <2> SUFFICES ASSUME NoticesInv, N!Next, NEW n \in pushed' \ pushed, n.kind # "forcedNews"
               PROVE  "push" \in switches[n.to] \/ n.to \in changed
    OBVIOUS
  <2>1. PICK l \in round.letters : N!Push(l)
    BY DEF N!Next, N!EndEmpty, N!BeginRound, N!ReadBalance, N!Change, N!Redeem, N!outbox
  <2>2. n = [kind |-> round.kind, to |-> l.to, prize |-> l.prize]
    BY <2>1 DEF N!Push, N!outbox
  <2>3. n.kind = round.kind /\ n.to = l.to
    BY <2>2
  <2> QED
    BY <2>1, <2>3 DEF NoticesInv
<1> HIDE DEF Wanted
<1>2. Spec => [][Wanted]_(N!vars)
  BY <1>1, NoticesStart, NoticesStep, NoticesKept, PTL DEF Spec
<1> QED
  BY <1>2 DEF Wanted, OnlyWanted, N!OnlyWanted

(***************************************************************************)
(* The reminders.                                                          *)
(***************************************************************************)

(* A step of the system is one of the reminders, or leaves them alone.      *)
LEMMA RemindersStep == [Next]_vars => [R!Next]_(R!vars)
  BY DEF Next, Others, remindersVars, vars, R!vars

(* While no check is late, no tick of the job is left out, and the market   *)
(* was announced at the tick whose window it is in, if that has passed.     *)
Turn(time) == (time \div 3) * 3
RemindersInv ==
    /\ minute \in Nat /\ due \in Nat /\ due >= 5 /\ told \in Nat /\ ran \in Int
    /\ closed \in BOOLEAN /\ delayed \in BOOLEAN
    /\ ran % 3 = 0 /\ ran <= minute
    /\ ~delayed => Turn(minute) <= ran + 3
    /\ (due - 5) % 3 # 0 /\ ~delayed /\ ~closed => told = IF Turn(due - 5) <= ran THEN 1 ELSE 0

(* The turn of a time is the last multiple of three that is not after it.    *)
LEMMA Turns ==
    ASSUME NEW time \in Int
    PROVE  /\ Turn(time) \in Int /\ Turn(time) <= time /\ time < Turn(time) + 3
           /\ Turn(time) % 3 = 0
           /\ time % 3 = 0 => time = Turn(time)
           /\ time % 3 # 0 => time # Turn(time)
           /\ (time + 1) % 3 = 0 => Turn(time + 1) = time + 1
           /\ (time + 1) % 3 # 0 => Turn(time + 1) = Turn(time)
  BY DEF Turn

(* The market is not announced and its tick has not passed at the start.    *)
LEMMA RemindersStart == Init => RemindersInv
<1> SUFFICES ASSUME R!Init
             PROVE  RemindersInv
  BY DEF Init
<1>1. /\ minute = 0 /\ due \in 5 .. 5 + 10 /\ closed = FALSE
      /\ ran = -3 /\ delayed = FALSE /\ told = 0
  BY DEF R!Init
<1>2. closed \in BOOLEAN /\ delayed \in BOOLEAN
  BY <1>1
<1>3. minute \in Nat /\ due \in Nat /\ due >= 5 /\ told \in Nat /\ ran \in Int /\ ran <= minute
  BY <1>1
<1>4. ran % 3 = 0
  <2>1. (-3) % 3 = 0
    OBVIOUS
  <2> QED
    BY <1>1, <2>1
<1>5. Turn(minute) <= ran + 3
  BY <1>1 DEF Turn
<1>6. ~(Turn(due - 5) <= ran) /\ told = 0
  BY <1>1 DEF Turn
<1> QED
  BY <1>2, <1>3, <1>4, <1>5, <1>6 DEF RemindersInv

(* Each check, early closing and passing of time keeps it.                  *)
LEMMA RemindersKept == RemindersInv /\ [R!Next]_(R!vars) => RemindersInv'
<1> SUFFICES ASSUME RemindersInv, [R!Next]_(R!vars)
             PROVE  RemindersInv'
  OBVIOUS
<1>0. /\ minute \in Nat /\ due \in Nat /\ due >= 5 /\ told \in Nat /\ ran \in Int
      /\ closed \in BOOLEAN /\ delayed \in BOOLEAN
      /\ ran % 3 = 0 /\ ran <= minute
  BY DEF RemindersInv
<1>1. CASE R!Check
  <2>1. /\ Turn(minute) > ran /\ ran' = Turn(minute)
        /\ delayed' = (delayed \/ minute # Turn(minute))
        /\ told' = IF ~closed /\ due \in minute + 5 .. minute + 8 THEN told + 1 ELSE told
        /\ UNCHANGED <<minute, due, closed>>
    <3>1. Turn(minute) > ran /\ ran' = Turn(minute)
      BY <1>1 DEF R!Check, Turn
    <3>2. delayed' = (delayed \/ minute # Turn(minute))
      BY <1>1 DEF R!Check, Turn
    <3>3. R!Window = minute + 5 .. minute + 5 + 3
      BY DEF R!Window, R!Lesser
    <3>4. minute + 5 + 3 = minute + 8
      BY <1>0
    <3>5. told' = IF ~closed /\ due \in R!Window THEN told + 1 ELSE told
      BY <1>1 DEF R!Check
    <3>6. UNCHANGED <<minute, due, closed>>
      BY <1>1 DEF R!Check
    <3> QED
      BY <3>1, <3>2, <3>3, <3>4, <3>5, <3>6
  <2>2. PICK t \in Int, d \in Int :
            /\ t = Turn(minute) /\ t <= minute /\ minute < t + 3 /\ t % 3 = 0
            /\ d = Turn(due - 5) /\ d <= due - 5 /\ due - 5 < d + 3 /\ d % 3 = 0
            /\ ((due - 5) % 3 # 0 => due - 5 # d)
    <3>1. minute \in Int /\ due - 5 \in Int
      BY <1>0
    <3> QED
      BY <3>1, Turns
  <2>3. delayed' \in BOOLEAN /\ told' \in Nat
    BY <1>0, <2>1
  <2>4. ASSUME (due - 5) % 3 # 0, ~delayed', ~closed
        PROVE  told' = IF d <= t THEN 1 ELSE 0
    <3>1. ~delayed /\ minute = t /\ t <= ran + 3 /\ told = IF d <= ran THEN 1 ELSE 0
      BY <2>1, <2>2, <2>4 DEF RemindersInv
    <3>2. t = ran + 3
      BY <1>0, <2>1, <2>2, <3>1
    <3>3. due \in minute + 5 .. minute + 8 <=> d = t
      BY <1>0, <2>2, <2>4, <3>1
    <3>4. d <= t <=> d <= ran \/ d = t
      <4>1. PICK a \in Int, b \in Int : t = 3 * a /\ d = 3 * b
        <5>1. t = 3 * (t \div 3) /\ d = 3 * (d \div 3) /\ t \div 3 \in Int /\ d \div 3 \in Int
          BY <2>2
        <5> QED
          BY <5>1
      <4> QED
        BY <1>0, <3>2, <4>1
    <3>5. d = t => ~(d <= ran)
      BY <1>0, <2>1, <2>2
    <3> QED
      BY <1>0, <2>1, <2>4, <3>1, <3>3, <3>4, <3>5
  <2>5. ran' = t /\ minute' = minute /\ due' = due /\ closed' = closed
    BY <2>1, <2>2
  <2>6. Turn(minute') = t /\ Turn(due' - 5) = d
    BY <2>2, <2>5
  <2>7. t <= t + 3
    BY <2>2
  <2> QED
    BY <1>0, <2>2, <2>3, <2>4, <2>5, <2>6, <2>7 DEF RemindersInv
<1>2. CASE R!Tick
  <2>1. /\ minute' = minute + 1
        /\ delayed' = (delayed \/ ((minute' % 3) = 0 /\ ran < minute' - 3))
        /\ UNCHANGED <<due, closed, ran, told>>
    <3>1. minute' = minute + 1 /\ UNCHANGED <<due, closed, ran, told>>
      BY <1>2 DEF R!Tick
    <3>2. delayed' = (delayed \/ ((minute' % 3) = 0 /\ ran < minute' - 3))
      BY <1>2 DEF R!Tick
    <3> QED
      BY <3>1, <3>2
  <2>2. delayed' \in BOOLEAN /\ minute' \in Nat /\ ran <= minute'
    BY <1>0, <2>1
  <2>3. ~delayed' => ~delayed /\ Turn(minute') <= ran + 3
    <3> SUFFICES ASSUME ~delayed'
                 PROVE  ~delayed /\ Turn(minute') <= ran + 3
      OBVIOUS
    <3>0. ~delayed /\ ~((minute' % 3) = 0 /\ ran < minute' - 3)
      BY <2>1
    <3>a. minute' = minute + 1
      BY <2>1
    <3>b. ~((minute + 1) % 3 = 0 /\ ran < minute + 1 - 3)
      BY <1>0, <3>0, <3>a
    <3>1. ~delayed /\ ~((minute + 1) % 3 = 0 /\ ran < minute + 1 - 3)
      BY <3>0, <3>b
    <3>2. Turn(minute) <= ran + 3
      BY <3>1 DEF RemindersInv
    <3>3. minute \in Int /\ minute' = minute + 1
      BY <1>0, <2>1
    <3>4. CASE (minute + 1) % 3 = 0
      BY <1>0, <3>1, <3>3, <3>4, Turns
    <3>5. CASE (minute + 1) % 3 # 0
      BY <3>1, <3>2, <3>3, <3>5, Turns
    <3> QED
      BY <3>1, <3>4, <3>5
  <2> QED
    BY <1>0, <2>1, <2>2, <2>3 DEF RemindersInv
<1>3. CASE R!CloseEarly
  <2>1. closed' = TRUE /\ UNCHANGED <<minute, due, ran, delayed, told>>
    BY <1>3 DEF R!CloseEarly
  <2>2. closed' \in BOOLEAN
    BY <2>1
  <2> QED
    BY <2>1, <2>2 DEF RemindersInv
<1>4. CASE UNCHANGED R!vars
  BY <1>4 DEF R!vars, RemindersInv
<1> QED
  BY <1>1, <1>2, <1>3, <1>4 DEF R!Next

(* A market that stays open and is not due between two windows is announced *)
(* at one check of the job, if none is late.                                *)
THEOREM MarketsAreAnnouncedOnce == Spec => []AnnouncedOnce
<1>1. RemindersInv => AnnouncedOnce
  BY DEF RemindersInv, AnnouncedOnce, R!AnnouncedOnce, Turn
<1> QED
  BY <1>1, RemindersStart, RemindersStep, RemindersKept, PTL DEF Spec

(***************************************************************************)
(* Several services.                                                       *)
(***************************************************************************)

(* What the faucet and the charges have given is logged once, or lost with a *)
(* request that failed in between; so are the collected fees, and a market   *)
(* that the chain has resolved has no fees left.                            *)
THEOREM WhatIsReceivedIsLogged ==
    ASSUME IsFiniteSet(Requests)
    PROVE  Spec => []ReceivedIsLogged
<1>1. WalletsInv => W!ReceivedIsLogged
  BY WalletsUnlogged DEF WalletsInv, LogsOK, W!ReceivedIsLogged
<1>2. FeesInv => F!FeesAreLogged /\ F!NothingLeft
  BY FeesAreRight
<1>3. WalletsInv /\ FeesInv => ReceivedIsLogged
  BY <1>1, <1>2 DEF ReceivedIsLogged
<1>4. Init => FeesInv
  BY FeesStart
<1>5. FeesInv /\ [Next]_vars => FeesInv'
  BY FeesStep, FeesKept
<1>6. Spec => []FeesInv
  BY <1>4, <1>5, PTL DEF Spec
<1> QED
  BY <1>3, <1>6, WalletsInvariant, PTL

(* What the code looks for before it saves a row, because no index of the    *)
(* table makes it unique, is unique as long as requests do not overlap:      *)
(* emails, names of categories, accounts of wallets.                        *)
THEOREM UniqueWithoutRaces ==
    ASSUME IsFiniteSet(Requests)
    PROVE  Spec => []UniqueUnlessRaced
  BY EmailsHaveOneAccount, NamesOfCategoriesDiffer, AccountsOfWalletsDiffer, PTL
  DEF UniqueUnlessRaced

(* No step changes the icon that two tokens show (updateOutcomeIcon), though *)
(* markets share the rows of outcomes.                                      *)
THEOREM UploadsAreFollowed == Spec => IconsFollowUploads
  BY UploadedIconsAreOwn DEF IconsFollowUploads

(***************************************************************************)
(* The lists and sums.                                                     *)
(***************************************************************************)

(* What is proved about them in ReportsProofs, of the rows that are here.    *)
Rep == INSTANCE ReportsProofs WITH Markets <- 1 .. 2, Amounts <- {1}, MaxTrades <- 2, MaxPins <- 1,
        MaxRemoved <- 1, closed <- closedMarkets, resolved <- resolvedMarkets

LEMMA ReportsStep == [Next]_vars => [Rep!Next]_(Rep!vars)
<1>1. S!Next <=> Rep!Next
  <2>1. \A m \in 1 .. 2 : S!RemoveMarket(m) <=> Rep!RemoveMarket(m)
    <3>1. \A X : S!Cardinality(X) = Rep!Cardinality(X)
      BY DEF S!Cardinality, Rep!Cardinality
    <3> QED
      BY <3>1 DEF S!RemoveMarket, Rep!RemoveMarket
  <2>2. \A m \in 1 .. 2 :
          S!Trade(m) \/ S!Close(m) \/ S!Resolve(m) \/ S!Pin(m) \/ S!SetPriority(m) \/ S!SaveStale(m)
          <=> \/ Rep!Trade(m) \/ Rep!Close(m) \/ Rep!Resolve(m) \/ Rep!Pin(m) \/ Rep!SetPriority(m)
              \/ Rep!SaveStale(m)
    BY DEF S!Trade, S!Close, S!Resolve, S!Pin, S!SetPriority, S!SaveStale,
           Rep!Trade, Rep!Close, Rep!Resolve, Rep!Pin, Rep!SetPriority, Rep!SaveStale
  <2> QED
    BY <2>1, <2>2 DEF S!Next, Rep!Next
<1> QED
  BY <1>1 DEF Next, Others, reportsVars, vars, Rep!vars

LEMMA ReportsStart == Init => Rep!Init
  BY DEF Init, S!Init, Rep!Init

(* The operators of the two instances are the same.                         *)
LEMMA SameOperators ==
    /\ \A X : S!Cardinality(X) = Rep!Cardinality(X) /\ Cardinality(X) = Rep!Cardinality(X)
    /\ \A X : IsFiniteSet(X) <=> Rep!IsFiniteSet(X)
    /\ \A f : S!Range(f) = Rep!Range(f)
    /\ \A f : S!SumFunction(f) = Rep!SumFunction(f)
    /\ \A f : S!FlattenSeq(f) = Rep!FlattenSeq(f)
<1>1. ASSUME NEW X
      PROVE  S!Cardinality(X) = Rep!Cardinality(X) /\ Cardinality(X) = Rep!Cardinality(X)
  BY DEF S!Cardinality, Rep!Cardinality, Cardinality
<1>2. ASSUME NEW X PROVE IsFiniteSet(X) <=> Rep!IsFiniteSet(X)
  BY DEF IsFiniteSet, Rep!IsFiniteSet
<1>3. ASSUME NEW f PROVE S!Range(f) = Rep!Range(f)
  BY DEF S!Range, Rep!Range
<1>4. ASSUME NEW f PROVE S!SumFunction(f) = Rep!SumFunction(f)
  BY DEF S!SumFunction, Rep!SumFunction, S!SumFunctionOnSet, Rep!SumFunctionOnSet,
         S!FoldFunctionOnSet, Rep!FoldFunctionOnSet, S!MapThenFoldSet, Rep!MapThenFoldSet
<1>5. ASSUME NEW f PROVE S!FlattenSeq(f) = Rep!FlattenSeq(f)
  BY DEF S!FlattenSeq, Rep!FlattenSeq
<1> QED
  BY <1>1, <1>2, <1>3, <1>4, <1>5

LEMMA SameOrder ==
    /\ \A m : S!Participants(m) = Rep!Participants(m)
    /\ \A st : S!WithStatus(st) = Rep!WithStatus(st)
    /\ \A pr, a, b : S!Before(pr, a, b) <=> Rep!Before(pr, a, b)
    /\ \A st, pr : S!Sorted(st, pr) = Rep!Sorted(st, pr)
<1>1. ASSUME NEW m PROVE S!Participants(m) = Rep!Participants(m)
  BY SameOperators DEF S!Participants, Rep!Participants
<1>2. ASSUME NEW st PROVE S!WithStatus(st) = Rep!WithStatus(st)
  BY DEF S!WithStatus, Rep!WithStatus
<1>3. ASSUME NEW pr, NEW a, NEW b
      PROVE  S!Before(pr, a, b) <=> Rep!Before(pr, a, b)
  BY <1>1 DEF S!Before, Rep!Before
<1>4. ASSUME NEW st, NEW pr, NEW m
      PROVE  S!Rank(st, pr, m) = Rep!Rank(st, pr, m)
  <2>1. {n \in S!WithStatus(st) : S!Before(pr, n, m)}
          = {n \in Rep!WithStatus(st) : Rep!Before(pr, n, m)}
    BY <1>2, <1>3
  <2> QED
    BY <2>1, SameOperators DEF S!Rank, Rep!Rank
<1>5. ASSUME NEW st, NEW pr
      PROVE  S!Sorted(st, pr) = Rep!Sorted(st, pr)
  <2> DEFINE those == Rep!WithStatus(st)
             first(i) == CHOOSE m \in those : S!Rank(st, pr, m) = i
             second(i) == CHOOSE m \in those : Rep!Rank(st, pr, m) = i
             size == Rep!Cardinality(those)
  <2>1. S!Sorted(st, pr) = [i \in 1 .. size |-> first(i)]
    BY <1>2, SameOperators DEF S!Sorted
  <2>2. \A i : first(i) = second(i)
    BY <1>4
  <2>3. Rep!Sorted(st, pr) = [i \in 1 .. size |-> second(i)]
    BY DEF Rep!Sorted
  <2> HIDE DEF those, first, second, size
  <2>4. [i \in 1 .. size |-> first(i)] = [i \in 1 .. size |-> second(i)]
    BY <2>2
  <2> QED
    BY <2>1, <2>3, <2>4
<1> QED
  BY <1>1, <1>2, <1>3, <1>5

LEMMA SameLists ==
    S!PagesMakeUpLists <=> Rep!PagesMakeUpLists
<1>2. \A list, skip, take : S!Page(list, skip, take) = Rep!Page(list, skip, take)
  BY DEF S!Page, Rep!Page, S!Lesser, Rep!Lesser
<1>3. ASSUME NEW list, NEW rows PROVE S!Filter(list, rows) = Rep!Filter(list, rows)
  BY DEF S!Filter, Rep!Filter
<1>4. \A t : S!Result(t) = Rep!Result(t)
  BY DEF S!Result, Rep!Result
<1>5. /\ \A u : S!TradesOf(u) = Rep!TradesOf(u)
      /\ \A r : S!TradesWith(r) = Rep!TradesWith(r)
  BY <1>4, SameOperators DEF S!TradesOf, Rep!TradesOf, S!TradesWith, Rep!TradesWith
<1>6. \A st, pr, skip, take :
         S!FindMarkets(st, pr, skip, take) = Rep!FindMarkets(st, pr, skip, take)
  BY <1>2, SameOrder DEF S!FindMarkets, Rep!FindMarkets
<1>7. \A u, r, skip, take : S!FindTrades(u, r, skip, take) = Rep!FindTrades(u, r, skip, take)
  BY <1>2, <1>3, <1>5 DEF S!FindTrades, Rep!FindTrades
<1>8. ASSUME NEW st, NEW pr, NEW n, NEW take
      PROVE  S!FlattenSeq([i \in 1 .. n |-> S!FindMarkets(st, pr, (i - 1) * take, take)])
             = Rep!FlattenSeq([i \in 1 .. n |-> Rep!FindMarkets(st, pr, (i - 1) * take, take)])
  BY <1>6, SameOperators
<1>9. ASSUME NEW u, NEW r, NEW n, NEW take
      PROVE  S!FlattenSeq([i \in 1 .. n |-> S!FindTrades(u, r, (i - 1) * take, take)])
             = Rep!FlattenSeq([i \in 1 .. n |-> Rep!FindTrades(u, r, (i - 1) * take, take)])
  BY <1>7, SameOperators
<1>10. S!PagesMakeUpLists <=> Rep!PagesMakeUpLists
  <2>1. S!Cardinality(1 .. 2) = Rep!Cardinality(1 .. 2)
    BY SameOperators
  <2>2. ASSUME NEW u, NEW r
        PROVE  S!Filter(trades, S!TradesOf(u) \intersect S!TradesWith(r))
                 = Rep!Filter(trades, Rep!TradesOf(u) \intersect Rep!TradesWith(r))
    BY <1>3, <1>5
  <2>3. S!Statuses = Rep!Statuses
    BY DEF S!Statuses, Rep!Statuses
  <2>4. ASSUME NEW st, NEW pr, NEW take
        PROVE  (S!Pages(LAMBDA s, t : S!FindMarkets(st, pr, s, t), S!Cardinality(1 .. 2), take)
                  = S!Sorted(st, pr))
               <=> (Rep!Pages(LAMBDA s, t : Rep!FindMarkets(st, pr, s, t),
                              Rep!Cardinality(1 .. 2), take) = Rep!Sorted(st, pr))
    BY <1>8, <2>1, SameOrder DEF S!Pages, Rep!Pages
  <2>5. ASSUME NEW u, NEW r, NEW take
        PROVE  (S!Pages(LAMBDA s, t : S!FindTrades(u, r, s, t), 2, take)
                  = S!Filter(trades, S!TradesOf(u) \intersect S!TradesWith(r)))
               <=> (Rep!Pages(LAMBDA s, t : Rep!FindTrades(u, r, s, t), 2, take)
                  = Rep!Filter(trades, Rep!TradesOf(u) \intersect Rep!TradesWith(r)))
    <3>1. S!FlattenSeq([i \in 1 .. 2 |-> S!FindTrades(u, r, (i - 1) * take, take)])
           = Rep!FlattenSeq([i \in 1 .. 2 |-> Rep!FindTrades(u, r, (i - 1) * take, take)])
      BY <1>9
    <3>2. S!Filter(trades, S!TradesOf(u) \intersect S!TradesWith(r))
           = Rep!Filter(trades, Rep!TradesOf(u) \intersect Rep!TradesWith(r))
      BY <2>2
    <3> QED
      BY <3>1, <3>2 DEF S!Pages, Rep!Pages
  <2>6. ASSUME NEW st, NEW pr
        PROVE  S!Range(S!Sorted(st, pr)) = S!WithStatus(st)
               <=> Rep!Range(Rep!Sorted(st, pr)) = Rep!WithStatus(st)
    BY SameOperators, SameOrder
  <2> QED
    BY <2>3, <2>4, <2>5, <2>6 DEF S!PagesMakeUpLists, Rep!PagesMakeUpLists
<1> QED
  BY <1>10

LEMMA SameSums == S!PoolsAddUp <=> Rep!PoolsAddUp
<1>1. \A t : S!Signed(t) = Rep!Signed(t) /\ S!Payment(t) = Rep!Payment(t)
  BY DEF S!Signed, Rep!Signed, S!Payment, Rep!Payment
<1>2. \A m : /\ S!TotalCollateralPool(m) = Rep!TotalCollateralPool(m)
             /\ S!CumulativeCollateralPool(m) = Rep!CumulativeCollateralPool(m)
  BY <1>1, SameOperators DEF S!TotalCollateralPool, Rep!TotalCollateralPool,
     S!CumulativeCollateralPool, Rep!CumulativeCollateralPool, S!Chosen, Rep!Chosen,
     S!SumOf, Rep!SumOf
<1>3. \A u, mode : S!UserTotals(u, mode) = Rep!UserTotals(u, mode)
  BY <1>1, SameOperators DEF S!UserTotals, Rep!UserTotals, S!Chosen, Rep!Chosen, S!SumOf, Rep!SumOf
<1>4. \A u : S!UserStatistics(u) = Rep!UserStatistics(u)
  BY <1>1, <1>3, SameOperators
     DEF S!UserStatistics, Rep!UserStatistics, S!Chosen, Rep!Chosen, S!SumOf, Rep!SumOf
<1>5. S!GeneralStatistics = Rep!GeneralStatistics
  BY <1>1, SameOperators
     DEF S!GeneralStatistics, Rep!GeneralStatistics, S!Chosen, Rep!Chosen, S!SumOf, Rep!SumOf
<1>6. \A m : S!FindParticipants(m) = Rep!FindParticipants(m)
  BY DEF S!FindParticipants, Rep!FindParticipants
<1>7. \A u : /\ S!SumOf(S!Missing(u), S!Signed) = Rep!SumOf(Rep!Missing(u), Rep!Signed)
             /\ S!SumOf(S!MissingSales(u), S!Payment)
                  = Rep!SumOf(Rep!MissingSales(u), Rep!Payment)
  BY <1>1, SameOperators DEF S!Missing, Rep!Missing, S!MissingSales, Rep!MissingSales,
     S!Chosen, Rep!Chosen, S!SumOf, Rep!SumOf
<1> QED
  BY <1>2, <1>3, <1>4, <1>5, <1>6, <1>7, SameOperators, SameOrder DEF S!PoolsAddUp, Rep!PoolsAddUp

THEOREM ReportsAlwaysAgree ==
    IsFiniteSet(Users) /\ Nobody \notin Users /\ Spec => []ReportsAgree
<1> SUFFICES ASSUME IsFiniteSet(Users), Nobody \notin Users
             PROVE  Spec => []ReportsAgree
  OBVIOUS
<1>1. Rep!ConstantsOK
  <2>1. IsFiniteSet(1 .. 2)
    BY 1 \in Int, 2 \in Int, FS_Interval
  <2>2. 1 \in 1 .. 2 /\ 2 \in 1 .. 2 /\ 1 # 2
    OBVIOUS
  <2> QED
    BY <2>1, <2>2, SameOperators DEF Rep!ConstantsOK
<1>2. Spec => Rep!Spec
  <2>1. Init => Rep!Init
    BY ReportsStart
  <2>2. [Next]_vars => [Rep!Next]_(Rep!vars)
    BY ReportsStep
  <2> QED
    BY <2>1, <2>2, PTL DEF Spec, Rep!Spec
<1>3. Rep!Spec => [](Rep!PagesMakeUpLists /\ Rep!PoolsAddUp)
  BY <1>1, Rep!ListsAndSumsAgree
<1>4. Rep!PagesMakeUpLists /\ Rep!PoolsAddUp => ReportsAgree
  BY SameLists, SameSums DEF ReportsAgree
<1> QED
  BY <1>2, <1>3, <1>4, PTL

(***************************************************************************)
(* The routes.                                                             *)
(***************************************************************************)

(* A step of the system is one of a request of the api, or leaves it alone. *)
LEMMA ApiStep == [Next]_vars => [H!Next]_(H!vars)
  BY DEF Next, Others, apiVars, vars, H!vars

(* A route by its verb and by the words of its path.                        *)
Verb(r) == H!Routes[r].verb
Size(r) == Len(H!Routes[r].path)
Word(r, i) == H!Routes[r].path[i]

IsPath(r) == Size(r) \in 1 .. 4 /\ DOMAIN H!Routes[r].path = 1 .. Size(r)

One(r, verb, a) ==
    /\ Verb(r) = verb /\ IsPath(r)
    /\ Size(r) = 1 /\ Word(r, 1) = a
Two(r, verb, a, b) ==
    /\ Verb(r) = verb /\ IsPath(r)
    /\ Size(r) = 2 /\ Word(r, 1) = a /\ Word(r, 2) = b
Three(r, verb, a, b, c) ==
    /\ Verb(r) = verb /\ IsPath(r)
    /\ Size(r) = 3 /\ Word(r, 1) = a /\ Word(r, 2) = b /\ Word(r, 3) = c
Four(r, verb, a, b, c, d) ==
    /\ Verb(r) = verb /\ IsPath(r)
    /\ Size(r) = 4 /\ Word(r, 1) = a /\ Word(r, 2) = b /\ Word(r, 3) = c /\ Word(r, 4) = d

(* The table, one controller after the other.                               *)
LEMMA UserTable ==
    /\ Two(1, "POST", "user", "register")
    /\ Two(2, "GET", "user", "login")
    /\ Two(3, "POST", "user", "login")
    /\ Two(4, "GET", "user", "whoami")
    /\ Two(5, "POST", "user", "logout")
    /\ Two(6, "GET", "user", ":id")
    /\ One(7, "GET", "user")
    /\ Two(8, "PATCH", "user", ":id")
    /\ Two(9, "PATCH", "user", "fcm-token")
    /\ Two(10, "PATCH", "user", "notification-setting")
<1>1. \A i \in 1 .. 10 : H!Routes[i] = H!UserRoutes[i]
  BY DEF H!Routes, H!UserRoutes, H!WalletRoutes, H!UploadRoutes, H!CategoryRoutes,
         H!ListRoutes, H!ReservedRoutes, H!ChainRoutes, H!StatisticsRoutes, H!TradeRoutes,
         H!LifecycleRoutes, H!MarketRoutes
<1>2. /\ Two(1, "POST", "user", "register")
      /\ Two(2, "GET", "user", "login")
      /\ Two(3, "POST", "user", "login")
  BY <1>1, SMTT(30) DEF H!UserRoutes, H!Open, H!Guarded, H!Route, Verb, Size, Word,
         IsPath, One, Two, Three, Four
<1>3. /\ Two(4, "GET", "user", "whoami")
      /\ Two(5, "POST", "user", "logout")
      /\ Two(6, "GET", "user", ":id")
  BY <1>1, SMTT(30) DEF H!UserRoutes, H!Open, H!Guarded, H!Route, Verb, Size, Word,
         IsPath, One, Two, Three, Four
<1>4. /\ One(7, "GET", "user")
      /\ Two(8, "PATCH", "user", ":id")
  BY <1>1, SMTT(30) DEF H!UserRoutes, H!Open, H!Guarded, H!Route, Verb, Size, Word,
         IsPath, One, Two, Three, Four
<1>5. /\ Two(9, "PATCH", "user", "fcm-token")
      /\ Two(10, "PATCH", "user", "notification-setting")
  BY <1>1, SMTT(30) DEF H!UserRoutes, H!Open, H!Guarded, H!Route, Verb, Size, Word,
         IsPath, One, Two, Three, Four
<1> QED
  BY <1>2, <1>3, <1>4, <1>5

LEMMA WalletTable ==
    /\ Four(11, "GET", "blockchain-wallet", "user", ":id", "tx-history")
    /\ Three(12, "GET", "blockchain-wallet", "user", ":id")
    /\ Four(13, "GET", "blockchain-wallet", ":token", ":chain", "balance")
    /\ Two(14, "POST", "blockchain-wallet", "connect")
    /\ Two(15, "POST", "blockchain-wallet", "faucet")
    /\ Two(16, "POST", "blockchain-wallet", "charge")
    /\ Two(17, "POST", "blockchain-wallet", "convert")
    /\ Two(18, "GET", "blockchain-wallet", "tx-history")
<1>1. \A i \in 11 .. 18 : H!Routes[i] = H!WalletRoutes[i - 10]
  BY DEF H!Routes, H!UserRoutes, H!WalletRoutes, H!UploadRoutes, H!CategoryRoutes,
         H!ListRoutes, H!ReservedRoutes, H!ChainRoutes, H!StatisticsRoutes, H!TradeRoutes,
         H!LifecycleRoutes, H!MarketRoutes
<1>2. /\ Four(11, "GET", "blockchain-wallet", "user", ":id", "tx-history")
      /\ Three(12, "GET", "blockchain-wallet", "user", ":id")
      /\ Four(13, "GET", "blockchain-wallet", ":token", ":chain", "balance")
  BY <1>1, SMTT(30) DEF H!WalletRoutes, H!Open, H!Guarded, H!Route, Verb, Size, Word,
         IsPath, One, Two, Three, Four
<1>3. /\ Two(14, "POST", "blockchain-wallet", "connect")
      /\ Two(15, "POST", "blockchain-wallet", "faucet")
      /\ Two(16, "POST", "blockchain-wallet", "charge")
  BY <1>1, SMTT(30) DEF H!WalletRoutes, H!Open, H!Guarded, H!Route, Verb, Size, Word,
         IsPath, One, Two, Three, Four
<1>4. /\ Two(17, "POST", "blockchain-wallet", "convert")
      /\ Two(18, "GET", "blockchain-wallet", "tx-history")
  BY <1>1, SMTT(30) DEF H!WalletRoutes, H!Open, H!Guarded, H!Route, Verb, Size, Word,
         IsPath, One, Two, Three, Four
<1> QED
  BY <1>2, <1>3, <1>4

LEMMA UploadTable ==
    /\ Two(19, "POST", "file-upload", "prediction-market")
    /\ Two(20, "POST", "file-upload", "pm-outcome")
    /\ Two(21, "POST", "file-upload", "pm-category")
<1>1. \A i \in 19 .. 21 : H!Routes[i] = H!UploadRoutes[i - 18]
  BY DEF H!Routes, H!UserRoutes, H!WalletRoutes, H!UploadRoutes, H!CategoryRoutes,
         H!ListRoutes, H!ReservedRoutes, H!ChainRoutes, H!StatisticsRoutes, H!TradeRoutes,
         H!LifecycleRoutes, H!MarketRoutes
<1>2. /\ Two(19, "POST", "file-upload", "prediction-market")
      /\ Two(20, "POST", "file-upload", "pm-outcome")
      /\ Two(21, "POST", "file-upload", "pm-category")
  BY <1>1, SMTT(30) DEF H!UploadRoutes, H!Open, H!Guarded, H!Route, Verb, Size, Word,
         IsPath, One, Two, Three, Four
<1> QED
  BY <1>2

LEMMA CategoryTable ==
    /\ Two(22, "POST", "prediction-market", "category")
    /\ Three(23, "PATCH", "prediction-market", "category", ":id")
    /\ Three(24, "DELETE", "prediction-market", "category", ":id")
    /\ Two(25, "GET", "prediction-market", "category")
    /\ Three(26, "GET", "prediction-market", "category", ":id")
    /\ Two(27, "GET", "prediction-market", "oracle")
    /\ Three(28, "GET", "prediction-market", "oracle", ":id")
<1>1. \A i \in 22 .. 28 : H!Routes[i] = H!CategoryRoutes[i - 21]
  BY DEF H!Routes, H!UserRoutes, H!WalletRoutes, H!UploadRoutes, H!CategoryRoutes,
         H!ListRoutes, H!ReservedRoutes, H!ChainRoutes, H!StatisticsRoutes, H!TradeRoutes,
         H!LifecycleRoutes, H!MarketRoutes
<1>2. /\ Two(22, "POST", "prediction-market", "category")
      /\ Three(23, "PATCH", "prediction-market", "category", ":id")
      /\ Three(24, "DELETE", "prediction-market", "category", ":id")
  BY <1>1, SMTT(30) DEF H!CategoryRoutes, H!Open, H!Guarded, H!Route, Verb, Size, Word,
         IsPath, One, Two, Three, Four
<1>3. /\ Two(25, "GET", "prediction-market", "category")
      /\ Three(26, "GET", "prediction-market", "category", ":id")
  BY <1>1, SMTT(30) DEF H!CategoryRoutes, H!Open, H!Guarded, H!Route, Verb, Size, Word,
         IsPath, One, Two, Three, Four
<1>4. /\ Two(27, "GET", "prediction-market", "oracle")
      /\ Three(28, "GET", "prediction-market", "oracle", ":id")
  BY <1>1, SMTT(30) DEF H!CategoryRoutes, H!Open, H!Guarded, H!Route, Verb, Size, Word,
         IsPath, One, Two, Three, Four
<1> QED
  BY <1>2, <1>3, <1>4

LEMMA ListTable ==
    /\ One(29, "POST", "prediction-market")
    /\ One(30, "GET", "prediction-market")
<1>1. \A i \in 29 .. 30 : H!Routes[i] = H!ListRoutes[i - 28]
  BY DEF H!Routes, H!UserRoutes, H!WalletRoutes, H!UploadRoutes, H!CategoryRoutes,
         H!ListRoutes, H!ReservedRoutes, H!ChainRoutes, H!StatisticsRoutes, H!TradeRoutes,
         H!LifecycleRoutes, H!MarketRoutes
<1>2. /\ One(29, "POST", "prediction-market")
      /\ One(30, "GET", "prediction-market")
  BY <1>1, SMTT(30) DEF H!ListRoutes, H!Open, H!Guarded, H!Route, Verb, Size, Word,
         IsPath, One, Two, Three, Four
<1> QED
  BY <1>2

LEMMA ReservedTable ==
    /\ Two(31, "GET", "prediction-market", "reserved")
    /\ Three(32, "GET", "prediction-market", "reserved", ":id")
    /\ Three(33, "PATCH", "prediction-market", "reserved", ":id")
    /\ Three(34, "DELETE", "prediction-market", "reserved", ":id")
<1>1. \A i \in 31 .. 34 : H!Routes[i] = H!ReservedRoutes[i - 30]
  BY DEF H!Routes, H!UserRoutes, H!WalletRoutes, H!UploadRoutes, H!CategoryRoutes,
         H!ListRoutes, H!ReservedRoutes, H!ChainRoutes, H!StatisticsRoutes, H!TradeRoutes,
         H!LifecycleRoutes, H!MarketRoutes
<1>2. /\ Two(31, "GET", "prediction-market", "reserved")
      /\ Three(32, "GET", "prediction-market", "reserved", ":id")
  BY <1>1, SMTT(30) DEF H!ReservedRoutes, H!Open, H!Guarded, H!Route, Verb, Size, Word,
         IsPath, One, Two, Three, Four
<1>3. /\ Three(33, "PATCH", "prediction-market", "reserved", ":id")
      /\ Three(34, "DELETE", "prediction-market", "reserved", ":id")
  BY <1>1, SMTT(30) DEF H!ReservedRoutes, H!Open, H!Guarded, H!Route, Verb, Size, Word,
         IsPath, One, Two, Three, Four
<1> QED
  BY <1>2, <1>3

LEMMA ChainTable ==
    /\ Four(35, "GET", "prediction-market", ":id", "collateral", "liquidity")
    /\ Four(36, "GET", "prediction-market", ":id", "collateral", "balance")
    /\ Four(37, "GET", "prediction-market", ":id", "ctf", "liquidity")
    /\ Four(38, "GET", "prediction-market", ":id", "ctf", "balance")
    /\ Four(39, "GET", "prediction-market", ":id", "ctf", "price")
    /\ Four(40, "GET", "prediction-market", ":id", "ctf", "marginal-price")
    /\ Four(41, "GET", "prediction-market", ":id", "ctf", "possibility")
<1>1. \A i \in 35 .. 41 : H!Routes[i] = H!ChainRoutes[i - 34]
  BY DEF H!Routes, H!UserRoutes, H!WalletRoutes, H!UploadRoutes, H!CategoryRoutes,
         H!ListRoutes, H!ReservedRoutes, H!ChainRoutes, H!StatisticsRoutes, H!TradeRoutes,
         H!LifecycleRoutes, H!MarketRoutes
<1>2. /\ Four(35, "GET", "prediction-market", ":id", "collateral", "liquidity")
      /\ Four(36, "GET", "prediction-market", ":id", "collateral", "balance")
      /\ Four(37, "GET", "prediction-market", ":id", "ctf", "liquidity")
  BY <1>1, SMTT(30) DEF H!ChainRoutes, H!Open, H!Guarded, H!Route, Verb, Size, Word,
         IsPath, One, Two, Three, Four
<1>3. /\ Four(38, "GET", "prediction-market", ":id", "ctf", "balance")
      /\ Four(39, "GET", "prediction-market", ":id", "ctf", "price")
  BY <1>1, SMTT(30) DEF H!ChainRoutes, H!Open, H!Guarded, H!Route, Verb, Size, Word,
         IsPath, One, Two, Three, Four
<1>4. /\ Four(40, "GET", "prediction-market", ":id", "ctf", "marginal-price")
      /\ Four(41, "GET", "prediction-market", ":id", "ctf", "possibility")
  BY <1>1, SMTT(30) DEF H!ChainRoutes, H!Open, H!Guarded, H!Route, Verb, Size, Word,
         IsPath, One, Two, Three, Four
<1> QED
  BY <1>2, <1>3, <1>4

LEMMA StatisticsTable ==
    /\ Two(42, "GET", "prediction-market", "my-participation-stats")
    /\ Two(43, "GET", "prediction-market", "participation-stats")
    /\ Two(44, "GET", "prediction-market", "my-trades")
    /\ Three(45, "GET", "prediction-market", "my-trades", "total")
    /\ Two(46, "GET", "prediction-market", "my-markets")
    /\ Four(47, "POST", "prediction-market", "my-markets", ":id", "results-seen")
    /\ Three(48, "GET", "prediction-market", ":id", "my-trades")
    /\ Four(49, "GET", "prediction-market", ":id", "my-trades", "total")
<1>1. \A i \in 42 .. 49 : H!Routes[i] = H!StatisticsRoutes[i - 41]
  BY DEF H!Routes, H!UserRoutes, H!WalletRoutes, H!UploadRoutes, H!CategoryRoutes,
         H!ListRoutes, H!ReservedRoutes, H!ChainRoutes, H!StatisticsRoutes, H!TradeRoutes,
         H!LifecycleRoutes, H!MarketRoutes
<1>2. /\ Two(42, "GET", "prediction-market", "my-participation-stats")
      /\ Two(43, "GET", "prediction-market", "participation-stats")
      /\ Two(44, "GET", "prediction-market", "my-trades")
  BY <1>1, SMTT(30) DEF H!StatisticsRoutes, H!Open, H!Guarded, H!Route, Verb, Size, Word,
         IsPath, One, Two, Three, Four
<1>3. /\ Three(45, "GET", "prediction-market", "my-trades", "total")
      /\ Two(46, "GET", "prediction-market", "my-markets")
      /\ Four(47, "POST", "prediction-market", "my-markets", ":id", "results-seen")
  BY <1>1, SMTT(30) DEF H!StatisticsRoutes, H!Open, H!Guarded, H!Route, Verb, Size, Word,
         IsPath, One, Two, Three, Four
<1>4. /\ Three(48, "GET", "prediction-market", ":id", "my-trades")
      /\ Four(49, "GET", "prediction-market", ":id", "my-trades", "total")
  BY <1>1, SMTT(30) DEF H!StatisticsRoutes, H!Open, H!Guarded, H!Route, Verb, Size, Word,
         IsPath, One, Two, Three, Four
<1> QED
  BY <1>2, <1>3, <1>4

LEMMA TradeTable ==
    /\ Three(50, "POST", "prediction-market", "ctf", "buy")
    /\ Three(51, "POST", "prediction-market", "ctf", "sell")
    /\ Four(52, "GET", "prediction-market", ":id", "ctf", "whatuget")
    /\ Three(53, "GET", "prediction-market", ":id", "participants")
<1>1. \A i \in 50 .. 53 : H!Routes[i] = H!TradeRoutes[i - 49]
  BY DEF H!Routes, H!UserRoutes, H!WalletRoutes, H!UploadRoutes, H!CategoryRoutes,
         H!ListRoutes, H!ReservedRoutes, H!ChainRoutes, H!StatisticsRoutes, H!TradeRoutes,
         H!LifecycleRoutes, H!MarketRoutes
<1>2. /\ Three(50, "POST", "prediction-market", "ctf", "buy")
      /\ Three(51, "POST", "prediction-market", "ctf", "sell")
  BY <1>1, SMTT(30) DEF H!TradeRoutes, H!Open, H!Guarded, H!Route, Verb, Size, Word,
         IsPath, One, Two, Three, Four
<1>3. /\ Four(52, "GET", "prediction-market", ":id", "ctf", "whatuget")
      /\ Three(53, "GET", "prediction-market", ":id", "participants")
  BY <1>1, SMTT(30) DEF H!TradeRoutes, H!Open, H!Guarded, H!Route, Verb, Size, Word,
         IsPath, One, Two, Three, Four
<1> QED
  BY <1>2, <1>3

LEMMA LifecycleTable ==
    /\ Three(54, "POST", "prediction-market", ":id", "force-close")
    /\ Three(55, "POST", "prediction-market", ":id", "change-liquidity")
    /\ Three(56, "POST", "prediction-market", ":id", "resolve")
    /\ Three(57, "POST", "prediction-market", ":id", "collect-fees")
    /\ Three(58, "POST", "prediction-market", ":id", "redeem")
<1>1. \A i \in 54 .. 58 : H!Routes[i] = H!LifecycleRoutes[i - 53]
  BY DEF H!Routes, H!UserRoutes, H!WalletRoutes, H!UploadRoutes, H!CategoryRoutes,
         H!ListRoutes, H!ReservedRoutes, H!ChainRoutes, H!StatisticsRoutes, H!TradeRoutes,
         H!LifecycleRoutes, H!MarketRoutes
<1>2. /\ Three(54, "POST", "prediction-market", ":id", "force-close")
      /\ Three(55, "POST", "prediction-market", ":id", "change-liquidity")
      /\ Three(56, "POST", "prediction-market", ":id", "resolve")
  BY <1>1, SMTT(30) DEF H!LifecycleRoutes, H!Open, H!Guarded, H!Route, Verb, Size, Word,
         IsPath, One, Two, Three, Four
<1>3. /\ Three(57, "POST", "prediction-market", ":id", "collect-fees")
      /\ Three(58, "POST", "prediction-market", ":id", "redeem")
  BY <1>1, SMTT(30) DEF H!LifecycleRoutes, H!Open, H!Guarded, H!Route, Verb, Size, Word,
         IsPath, One, Two, Three, Four
<1> QED
  BY <1>2, <1>3

LEMMA MarketTable ==
    /\ Two(59, "GET", "prediction-market", ":id")
    /\ Three(60, "PATCH", "prediction-market", ":id", "pin")
    /\ Three(61, "PATCH", "prediction-market", ":id", "unpin")
    /\ Two(62, "PATCH", "prediction-market", ":id")
    /\ Two(63, "DELETE", "prediction-market", ":id")
    /\ Two(64, "POST", "prediction-market", "inform")
<1>1. \A i \in 59 .. 64 : H!Routes[i] = H!MarketRoutes[i - 58]
  BY DEF H!Routes, H!UserRoutes, H!WalletRoutes, H!UploadRoutes, H!CategoryRoutes,
         H!ListRoutes, H!ReservedRoutes, H!ChainRoutes, H!StatisticsRoutes, H!TradeRoutes,
         H!LifecycleRoutes, H!MarketRoutes
<1>2. /\ Two(59, "GET", "prediction-market", ":id")
      /\ Three(60, "PATCH", "prediction-market", ":id", "pin")
      /\ Three(61, "PATCH", "prediction-market", ":id", "unpin")
  BY <1>1, SMTT(30) DEF H!MarketRoutes, H!Open, H!Guarded, H!Route, Verb, Size, Word,
         IsPath, One, Two, Three, Four
<1>3. /\ Two(62, "PATCH", "prediction-market", ":id")
      /\ Two(63, "DELETE", "prediction-market", ":id")
      /\ Two(64, "POST", "prediction-market", "inform")
  BY <1>1, SMTT(30) DEF H!MarketRoutes, H!Open, H!Guarded, H!Route, Verb, Size, Word,
         IsPath, One, Two, Three, Four
<1> QED
  BY <1>2, <1>3

LEMMA PathsAreSequences == DOMAIN H!Routes = 1 .. 64 /\ \A r \in 1 .. 64 : IsPath(r)
<1>1. DOMAIN H!Routes = 1 .. 64
  BY DEF H!Routes, H!UserRoutes, H!WalletRoutes, H!UploadRoutes, H!CategoryRoutes,
         H!ListRoutes, H!ReservedRoutes, H!ChainRoutes, H!StatisticsRoutes, H!TradeRoutes,
         H!LifecycleRoutes, H!MarketRoutes
<1>2. \A r \in 1 .. 64 : IsPath(r)
  BY UserTable, WalletTable, UploadTable, CategoryTable, ListTable, ReservedTable,
     ChainTable, StatisticsTable, TradeTable, LifecycleTable, MarketTable
     DEF One, Two, Three, Four
<1> QED
  BY <1>1, <1>2

(* The route that takes the requests of the shadowed ones.                  *)
LEMMA EighthRoute ==
    H!Routes[8].guarded /\ Verb(8) = "PATCH" /\ H!Routes[8].path = <<"user", ":id">>
<1>1. \A i \in 1 .. 10 : H!Routes[i] = H!UserRoutes[i]
  BY DEF H!Routes, H!UserRoutes, H!WalletRoutes, H!UploadRoutes, H!CategoryRoutes,
         H!ListRoutes, H!ReservedRoutes, H!ChainRoutes, H!StatisticsRoutes, H!TradeRoutes,
         H!LifecycleRoutes, H!MarketRoutes
<1> QED
  BY <1>1 DEF H!UserRoutes, H!Guarded, H!Route, Verb

(* A route takes the requests of another before it.                         *)
Hides(a, b) ==
    /\ Verb(a) = Verb(b) /\ Size(a) = Size(b)
    /\ \A i \in 1 .. Size(b) : Word(a, i) \in H!Parameters \/ Word(a, i) = Word(b, i)

(* The shadowed ones are two, and no other is hidden.                       *)
LEMMA NoneIsHidden ==
    /\ \A b \in (1 .. 64) \ {9, 10}, a \in 1 .. 63 : a < b => ~Hides(a, b)
    /\ \A b \in {9, 10} : Hides(8, b) /\ \A a \in 1 .. 7 : ~Hides(a, b)
<1>1. \A b \in (1 .. 64) \ {9, 10}, a \in 1 .. 63 : a < b => ~Hides(a, b)
  BY UserTable, WalletTable, UploadTable, CategoryTable, ListTable, ReservedTable,
     ChainTable, StatisticsTable, TradeTable, LifecycleTable, MarketTable
     DEF H!Parameters, Hides, One, Two, Three, Four
<1>2. \A b \in {9, 10} : Hides(8, b) /\ \A a \in 1 .. 7 : ~Hides(a, b)
  BY UserTable DEF H!Parameters, Hides, One, Two
<1> QED
  BY <1>1, <1>2

(* Changes have an id in their path, but for the shadowed ones.             *)
LEMMA ChangesHaveIds ==
    \A r \in (1 .. 64) \ {9, 10} :
        /\ Verb(r) \in {"GET", "POST", "PATCH", "DELETE"}
        /\ Verb(r) \in {"PATCH", "DELETE"} => \E i \in 1 .. Size(r) : Word(r, i) = ":id"
  BY UserTable, WalletTable, UploadTable, CategoryTable, ListTable, ReservedTable,
     ChainTable, StatisticsTable, TradeTable, LifecycleTable, MarketTable
     DEF One, Two, Three, Four

LEMMA ShadowedOnes == H!Shadowed = {9, 10}
<1>1. /\ H!Routes[9].path = <<"user", "fcm-token">>
      /\ H!Routes[10].path = <<"user", "notification-setting">>
  <2>1. \A i \in 1 .. 10 : H!Routes[i] = H!UserRoutes[i]
    BY DEF H!Routes, H!UserRoutes, H!WalletRoutes, H!UploadRoutes, H!CategoryRoutes,
         H!ListRoutes, H!ReservedRoutes, H!ChainRoutes, H!StatisticsRoutes, H!TradeRoutes,
         H!LifecycleRoutes, H!MarketRoutes
  <2> QED
    BY <2>1 DEF H!UserRoutes, H!Guarded, H!Route
<1>2. ASSUME NEW r \in 1 .. 64, NEW w, H!Routes[r].path = <<"user", w>>
      PROVE  Size(r) = 2 /\ Word(r, 1) = "user" /\ Word(r, 2) = w
  BY <1>2 DEF Size, Word
<1>3. \A r \in 1 .. 64 : /\ Size(r) = 2 /\ Word(r, 1) = "user"
                         /\ Word(r, 2) \in {"fcm-token", "notification-setting"}
                         => r \in {9, 10}
  BY UserTable, WalletTable, UploadTable, CategoryTable, ListTable, ReservedTable,
     ChainTable, StatisticsTable, TradeTable, LifecycleTable, MarketTable
     DEF One, Two, Three, Four
<1>4. \A r \in 1 .. 64 :
         H!Routes[r].path \in {<<"user", "fcm-token">>, <<"user", "notification-setting">>}
           <=> r \in {9, 10}
  BY <1>1, <1>2, <1>3
<1> QED
  BY <1>4, PathsAreSequences DEF H!Shadowed

(* An id is no word of a route: in the code ids are numbers.                 *)
IdsAreNoWords ==
    /\ "" \notin TextIds
    /\ \A r \in DOMAIN H!Routes : \A i \in DOMAIN H!Routes[r].path : Word(r, i) \notin TextIds

(* The path of a request that means a route.                                *)
Meant(r, value) ==
    [i \in DOMAIN H!Routes[r].path |->
        IF H!Routes[r].path[i] \in H!Parameters THEN value ELSE H!Routes[r].path[i]]

(* A request is taken by the route it means, and by those that hide it.     *)
LEMMA WhoTakes ==
    ASSUME IdsAreNoWords, NEW a \in 1 .. 64, NEW b \in 1 .. 64, NEW value \in TextIds
    PROVE  /\ Len(Meant(b, value)) = Size(b) /\ DOMAIN Meant(b, value) = 1 .. Size(b)
           /\ \A i \in 1 .. Size(b) : Meant(b, value)[i]
                  = IF Word(b, i) \in H!Parameters THEN value ELSE Word(b, i)
           /\ H!Fits(H!Routes[a], Verb(b), Meant(b, value)) <=> Hides(a, b)
           /\ Hides(b, b)
<1>1. IsPath(a) /\ IsPath(b) /\ a \in DOMAIN H!Routes /\ b \in DOMAIN H!Routes
  BY PathsAreSequences
<1>2. /\ DOMAIN H!Routes[a].path = 1 .. Size(a) /\ Size(a) \in Nat
      /\ DOMAIN H!Routes[b].path = 1 .. Size(b) /\ Size(b) \in Nat
  BY <1>1 DEF IsPath
<1>3. /\ \A i \in 1 .. Size(a) : Word(a, i) \notin TextIds
      /\ \A i \in 1 .. Size(b) : Word(b, i) \notin TextIds
  BY <1>1, <1>2 DEF IdsAreNoWords
<1>4. DOMAIN Meant(b, value) = 1 .. Size(b)
  BY <1>2 DEF Meant
<1>5. Len(Meant(b, value)) = Size(b)
  <2> DEFINE f == Meant(b, value)
  <2>1. f = [i \in 1 .. Size(b) |-> f[i]]
    BY <1>2 DEF Meant
  <2>2. f \in Seq({f[i] : i \in 1 .. Size(b)})
    BY <2>1, <1>2, IsASeq
  <2> HIDE DEF f
  <2> QED
    BY <2>2, <1>2, <1>4, LenProperties DEF f
<1>6. \A i \in 1 .. Size(b) :
         Meant(b, value)[i] = IF Word(b, i) \in H!Parameters THEN value ELSE Word(b, i)
  BY <1>2 DEF Meant, Word
<1>7. H!Fits(H!Routes[a], Verb(b), Meant(b, value))
        <=> /\ Verb(a) = Verb(b) /\ Size(a) = Size(b)
            /\ \A i \in 1 .. Size(b) :
                  Word(a, i) \in H!Parameters \/ Word(a, i) = Meant(b, value)[i]
  BY <1>4, <1>5 DEF H!Fits, Verb, Size, Word
<1>8. ASSUME Size(a) = Size(b), NEW i \in 1 .. Size(b)
      PROVE  Word(a, i) \in H!Parameters \/ Word(a, i) = Meant(b, value)[i]
               <=> Word(a, i) \in H!Parameters \/ Word(a, i) = Word(b, i)
  BY <1>3, <1>6, <1>8
<1>9. H!Fits(H!Routes[a], Verb(b), Meant(b, value)) <=> Hides(a, b)
  BY <1>7, <1>8 DEF Hides
<1> QED
  BY <1>4, <1>5, <1>6, <1>9 DEF Hides

(* While a request is handled its path is that of the route it means; what   *)
(* was found is the first route that takes it; what was answered is what     *)
(* the guard said.                                                          *)
ApiInv ==
    /\ cookie \in TextIds \union {""}
    /\ asked = 0 <=> status = "idle"
    /\ asked # 0 => asked \in 1 .. 64 /\ \E value \in TextIds : path = Meant(asked, value)
    /\ status \in {"found", "served", "refused"} =>
          /\ reached \in 1 .. 64 /\ H!Fits(H!Routes[reached], Verb(asked), path)
          /\ \A before \in 1 .. reached - 1 : ~H!Fits(H!Routes[before], Verb(asked), path)
    /\ status \in {"served", "refused"} =>
          (status = "served" <=> (H!Routes[reached].guarded =>
                                    H!CanActivate(cookie, H!Routes[reached], path)))

LEMMA ApiStart == Init => ApiInv
  BY DEF Init, H!Init, ApiInv

LEMMA ApiKept == ApiInv /\ [H!Next]_(H!vars) => ApiInv'
<1> SUFFICES ASSUME ApiInv, [H!Next]_(H!vars) PROVE ApiInv'
  OBVIOUS
<1>1. ASSUME NEW user \in TextIds \union {""}, H!SetSession(user) PROVE ApiInv'
  BY <1>1 DEF ApiInv, H!SetSession
<1>2. CASE H!Ask
  <2>1. asked' \in 1 .. 64 /\ asked' # 0
    BY <1>2, PathsAreSequences DEF H!Ask
  <2>2. \E value \in TextIds : path' = Meant(asked', value)
    BY <1>2 DEF H!Ask, Meant
  <2> QED
    BY <1>2, <2>1, <2>2 DEF ApiInv, H!Ask
<1>3. CASE H!Find
  <2>1. PICK r \in 1 .. 64 :
           /\ H!Fits(H!Routes[r], Verb(asked), path) /\ reached' = r
           /\ \A before \in 1 .. r - 1 : ~H!Fits(H!Routes[before], Verb(asked), path)
    BY <1>3, PathsAreSequences DEF H!Find, Verb
  <2> QED
    BY <1>3, <2>1 DEF ApiInv, H!Find
<1>4. CASE H!Handle
  BY <1>4 DEF ApiInv, H!Handle
<1>5. CASE H!Reply
  BY <1>5 DEF ApiInv, H!Reply
<1>6. CASE UNCHANGED H!vars
  BY <1>6 DEF ApiInv, H!vars
<1> QED
  BY <1>1, <1>2, <1>3, <1>4, <1>5, <1>6 DEF H!Next

(* The route that is found is the one that is meant, but for the shadowed    *)
(* ones, for which PATCH user/:id is found.                                  *)
LEMMA WhatIsReached ==
    ASSUME IdsAreNoWords, ApiInv, status \in {"served", "refused"}
    PROVE  /\ asked \in 1 .. 64
           /\ reached = IF asked \in {9, 10} THEN 8 ELSE asked
<1>0. asked # 0
  BY DEF ApiInv
<1>1. PICK value \in TextIds : asked \in 1 .. 64 /\ path = Meant(asked, value)
  BY <1>0 DEF ApiInv
<1>2. ASSUME NEW r \in 1 .. 64
      PROVE  (H!Fits(H!Routes[r], Verb(asked), path) <=> Hides(r, asked)) /\ Hides(asked, asked)
  BY <1>1, WhoTakes
<1>3. Hides(asked, asked)
  BY <1>2
<1>4. /\ reached \in 1 .. 64 /\ Hides(reached, asked)
      /\ \A r \in 1 .. reached - 1 : ~Hides(r, asked)
  <2>1. /\ reached \in 1 .. 64 /\ H!Fits(H!Routes[reached], Verb(asked), path)
        /\ \A r \in 1 .. reached - 1 : ~H!Fits(H!Routes[r], Verb(asked), path)
    BY DEF ApiInv
  <2>2. \A r \in 1 .. reached - 1 : r \in 1 .. 64
    BY <2>1
  <2> QED
    BY <1>2, <2>1, <2>2
<1>5. CASE asked \in {9, 10}
  <2>1. Hides(8, asked) /\ \A a \in 1 .. 7 : ~Hides(a, asked)
    BY <1>5, NoneIsHidden
  <2> QED
    BY <1>4, <1>5, <2>1
<1>6. CASE asked \notin {9, 10}
  <2>1. \A a \in 1 .. 63 : a < asked => ~Hides(a, asked)
    BY <1>1, <1>6, NoneIsHidden
  <2> QED
    BY <1>1, <1>3, <1>4, <1>6, <2>1
<1> QED
  BY <1>1, <1>5, <1>6

(* Each request reaches the route it means, however words and ids share the   *)
(* places of their paths, but for the two shadowed ones, which are refused;    *)
(* a logged-in user is refused no more than changes of what is another's.      *)
THEOREM RequestsReachTheirRoutes == IdsAreNoWords /\ Spec => []RightHandler
<1> SUFFICES ASSUME IdsAreNoWords PROVE Spec => []RightHandler
  OBVIOUS
<1>1. ApiInv => RightHandler
  <2> SUFFICES ASSUME ApiInv, status \in {"served", "refused"}
               PROVE  IF asked \in H!Shadowed
                      THEN reached # asked /\ status = "refused"
                      ELSE /\ reached = asked
                           /\ (status = "refused" /\ cookie # "") =>
                                /\ H!Routes[asked].verb \in {"PATCH", "DELETE"}
                                /\ cookie \notin {path[i] : i \in DOMAIN path}
    BY DEF RightHandler, H!RightHandler
  <2>1. asked \in 1 .. 64 /\ reached = IF asked \in {9, 10} THEN 8 ELSE asked
    BY WhatIsReached
  <2>2. PICK value \in TextIds : path = Meant(asked, value)
    BY <2>1 DEF ApiInv
  <2>3. /\ DOMAIN path = 1 .. Size(asked)
        /\ \A i \in 1 .. Size(asked) :
              path[i] = IF Word(asked, i) \in H!Parameters THEN value ELSE Word(asked, i)
    BY <2>1, <2>2, WhoTakes
  <2>4. /\ cookie \in TextIds \union {""} /\ "" \notin TextIds
        /\ \A i \in 1 .. Size(asked) : Word(asked, i) \notin TextIds
    BY <2>1, PathsAreSequences DEF ApiInv, IdsAreNoWords, IsPath
  <2>5. status = "served" <=> (H!Routes[reached].guarded =>
                                 H!CanActivate(cookie, H!Routes[reached], path))
    BY DEF ApiInv
  <2>6. CASE asked \in {9, 10}
    <3>1. H!Routes[8].guarded /\ Verb(8) = "PATCH" /\ H!Routes[8].path = <<"user", ":id">>
      BY EighthRoute
    <3>2. Size(asked) = 2 /\ Word(asked, 2) \notin H!Parameters
      BY <2>6, UserTable DEF Two, H!Parameters
    <3>3. H!Id(H!Routes[8], path) = path[2]
      <4>1. DOMAIN path = {1, 2} /\ H!Routes[8].path[1] = "user" /\ H!Routes[8].path[2] = ":id"
        BY <2>3, <3>1, <3>2
      <4>2. (CHOOSE i \in DOMAIN path : H!Routes[8].path[i] = ":id") = 2
        BY <4>1
      <4> QED
        BY <4>1, <4>2 DEF H!Id
    <3>4. path[2] = Word(asked, 2) /\ path[2] \notin TextIds
      <4>1. 2 \in 1 .. Size(asked)
        BY <3>2
      <4> QED
        BY <2>3, <2>4, <3>2, <4>1
    <3>5. ~H!CanActivate(cookie, H!Routes[8], path)
      BY <2>4, <3>1, <3>3, <3>4 DEF H!CanActivate, Verb
    <3> QED
      BY <2>1, <2>5, <2>6, <3>1, <3>5, ShadowedOnes
  <2>7. CASE asked \notin {9, 10}
    <3> SUFFICES ASSUME status = "refused", cookie # ""
                 PROVE  /\ H!Routes[asked].verb \in {"PATCH", "DELETE"}
                        /\ cookie \notin {path[i] : i \in DOMAIN path}
      BY <2>1, <2>7, ShadowedOnes
    <3>1. Verb(asked) \in {"PATCH", "DELETE"} /\ H!Id(H!Routes[asked], path) # cookie
      BY <2>1, <2>5, <2>7, ChangesHaveIds DEF H!CanActivate, Verb
    <3>2. PICK i \in 1 .. Size(asked) : Word(asked, i) = ":id"
      BY <2>1, <2>7, <3>1, ChangesHaveIds
    <3>3. H!Id(H!Routes[asked], path) = value
      <4> DEFINE j == CHOOSE k \in DOMAIN path : H!Routes[asked].path[k] = ":id"
      <4>1. j \in DOMAIN path /\ H!Routes[asked].path[j] = ":id"
        BY <2>3, <3>2 DEF Word
      <4>2. path[j] = value
        BY <2>3, <4>1 DEF Word, H!Parameters
      <4> QED
        BY <4>1, <4>2 DEF H!Id
    <3>4. \A k \in 1 .. Size(asked) : cookie # path[k]
      BY <2>3, <2>4, <3>1, <3>3
    <3> QED
      BY <2>3, <3>1, <3>4 DEF Verb
  <2> QED
    BY <2>6, <2>7
<1>2. Init => ApiInv
  BY ApiStart
<1>3. ApiInv /\ [Next]_vars => ApiInv'
  BY ApiStep, ApiKept
<1> QED
  BY <1>1, <1>2, <1>3, PTL DEF Spec

=============================================================================
