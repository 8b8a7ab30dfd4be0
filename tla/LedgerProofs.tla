---------------------------- MODULE LedgerProofs ----------------------------
(***************************************************************************)
(* Proofs about the module Ledger, for any handlers, outcomes, traders,     *)
(* sizes of trades and bounds.                                             *)
(***************************************************************************)
EXTENDS Ledger, SumTheorems, TLAPS

-----------------------------------------------------------------------------
(* The inductive invariants                                                *)

(* The queries that a handler or a request can have under way.              *)
WorkOf == [none |-> {},
           trade |-> {"selectTokens", "updateTokens", "saveMarket", "parts", "tx"},
           resolve |-> {"selectTokens", "updateTokens", "saveMarket"},
           redeem |-> {"history", "monetize", "tx"},
           seen |-> {"check", "monetize"}]

(* A run handles a log that was delivered, and what it has begun is due.    *)
RunFits(r) ==
    /\ r.work \subseteq WorkOf[r.op]
    /\ r.op \in {"trade", "redeem"} => r.on.log.kind = r.op /\ r.on.nth <= delivered[r.on.log]
    /\ r.op = "redeem" => r.who = redeems[r.on.log.no].redeemer
    /\ r.op \in {"resolve", "seen"} \/ r.market.resolved => phase = "reported"
    /\ "tx" \in r.work => r.work = {"tx"} /\ LogsTx(r)

(* What the database and the server know of has happened on the chain.      *)
ChainFits ==
    /\ redeems # <<>> => phase = "reported"
    /\ \A t \in Traders, o \in Outcomes : Bought(t, o) >= 0
    /\ market.resolved => phase = "reported"
    /\ \A l \in Log : delivered[l] > 0 => Emitted(l)
    /\ \A d \in ignored : d.nth <= delivered[d.log]
    /\ \A p \in parts : p.of.log.kind = "trade" /\ p.of.nth <= delivered[p.of.log]
    /\ IsFiniteSet(parts)

TypeInv == TypeOK /\ ChainFits /\ \A h \in Handlers : RunFits(run[h])

-----------------------------------------------------------------------------
(* What the steps do to the runs                                           *)

(* The run s is the run r with other queries under way.                     *)
Continues(r, s) ==
    /\ s.op = r.op /\ s.on = r.on /\ s.who = r.who /\ s.tokens = r.tokens
    /\ s.market = r.market /\ s.failed = r.failed /\ s.diff = r.diff

(* The fields of a run that has nothing to do.                              *)
LEMMA IdleFields ==
    /\ Idle \in Run
    /\ Idle.op = "none" /\ Idle.work = {} /\ Idle.tokens = NewTokens
    /\ Idle.market = NewMarket /\ ~Idle.failed /\ Idle.diff = {}
    /\ NewTokens \in [Outcomes -> Token]
    /\ NewMarket \in Market /\ ~NewMarket.resolved
<1>1. (CHOOSE t \in Traders : TRUE) \in Traders
  BY TradersAssumption
<1>2. NewTokens \in [Outcomes -> Token]
  BY DEF NewTokens, Token, Trueness
<1>3. NewMarket \in Market /\ ~NewMarket.resolved
  BY DEF NewMarket, Market
<1>4. [log |-> [kind |-> "resolve", no |-> 1], nth |-> 1] \in Delivery
  BY DEF Delivery, Log
<1> QED BY <1>1, <1>2, <1>3, <1>4 DEF Idle, Run

(* A run after one of its queries.                                          *)
LEMMA AfterFields ==
    ASSUME NEW r \in Run, NEW w, NEW s, s = After(r, w)
    PROVE  /\ s \in Run
           /\ \/ s = Idle
              \/ /\ Continues(r, s)
                 /\ \/ s.work = r.work \ {w}
                    \/ s.work = {"tx"} /\ LogsTx(r) /\ w # "tx" /\ r.work \subseteq {w}
<1> DEFINE rest == [r EXCEPT !.work = @ \ {w}]
<1>1. rest \in Run /\ Continues(r, rest) /\ rest.work = r.work \ {w}
  BY DEF Run, Continues
<1>2. CASE s = rest
  BY <1>1, <1>2
<1>3. CASE s = Idle
  BY <1>3, IdleFields
<1>4. CASE s = [rest EXCEPT !.work = {"tx"}] /\ rest.work = {} /\ w # "tx" /\ LogsTx(r)
  <2>1. {"tx"} \in SUBSET Work
    BY DEF Work
  <2> HIDE DEF rest
  <2>2. s \in Run
    BY <1>1, <1>4, <2>1 DEF Run
  <2>3. Continues(rest, s) /\ s.work = {"tx"}
    BY <1>1, <1>4 DEF Run, Continues
  <2> QED BY <1>1, <1>4, <2>2, <2>3 DEF Continues
<1> QED BY <1>2, <1>3, <1>4 DEF After

(* The run that begins with a delivery.                                     *)
Begun(d) ==
    CASE d.log.kind = "trade" -> TradeRun(d)
      [] d.log.kind = "resolve" -> ResolveRun(d)
      [] d.log.kind = "redeem" -> RedeemRun(d)

(* The request of a user who has seen the result.                           *)
SeenRun(u) == [Idle EXCEPT !.op = "seen", !.who = u, !.tokens = tokens, !.work = {"check"}]

(* The amount of a trade is an integer.                                     *)
LEMMA AmountTypes == Amounts \subseteq Int /\ 0 \notin Amounts
<1> SUFFICES ASSUME NEW a \in Amounts PROVE a \in Int /\ a # 0
  OBVIOUS
<1>1. \A n \in Sizes : n \in Int /\ n > 0
  BY SizesAssumption
<1>2. a \in Sizes \/ \E n \in Sizes : a = -n
  BY DEF Amounts
<1> QED BY <1>1, <1>2

(* The events of the logs that were emitted.                                *)
LEMMA EventTypes ==
    ASSUME TypeOK, NEW l \in Log, Emitted(l)
    PROVE  /\ l.kind \in {"trade", "resolve", "redeem"}
           /\ l.kind = "trade" => l.no \in DOMAIN trades /\ trades[l.no] \in TradeEvent
           /\ l.kind = "redeem" => l.no \in DOMAIN redeems /\ redeems[l.no] \in RedeemEvent
<1>1. l.kind \in {"trade", "resolve", "redeem"} /\ (l.kind # "resolve" => l.no \in Nat \ {0})
  BY LedgerBounds DEF Log
<1>2. trades \in Seq(TradeEvent) /\ redeems \in Seq(RedeemEvent)
  BY DEF TypeOK
<1>3. ASSUME l.kind = "trade"
      PROVE  l.no \in 1 .. Len(trades)
  BY <1>1, <1>2, <1>3 DEF Emitted
<1>4. ASSUME l.kind = "redeem"
      PROVE  l.no \in 1 .. Len(redeems)
  BY <1>1, <1>2, <1>4 DEF Emitted
<1> QED BY <1>1, <1>2, <1>3, <1>4

(* The fields of a run that begins.                                         *)
LEMMA BegunFields ==
    ASSUME TypeOK, NEW d \in Delivery, Emitted(d.log), NEW r, r = Begun(d)
    PROVE  /\ r \in Run
           /\ r.op = d.log.kind /\ r.on = d /\ ~r.failed /\ r.diff = {}
           /\ r.op = "trade" =>
                /\ r.tokens = Added(trades[d.log.no]) /\ r.market = market
                /\ r.work = {"selectTokens", "saveMarket", "parts"}
           /\ r.op = "resolve" =>
                /\ r.tokens = Judged /\ r.market = [market EXCEPT !.resolved = TRUE]
                /\ r.work = {"selectTokens", "saveMarket"}
           /\ r.op = "redeem" =>
                /\ r.tokens = NewTokens /\ r.market = NewMarket
                /\ r.who = redeems[d.log.no].redeemer
                /\ r.work \subseteq {"history", "monetize"}
                /\ redeems[d.log.no].payout > 0 => "history" \in r.work
<1> DEFINE e == trades[d.log.no]
           f == redeems[d.log.no]
<1>0. d.log \in Log
  BY DEF Delivery
<1>1. CASE d.log.kind = "trade"
  <2>1. e \in TradeEvent
    BY <1>0, <1>1, EventTypes
  <2>2. e.outcome \in Outcomes /\ e.amount \in Int
    BY <2>1, AmountTypes DEF TradeEvent
  <2>3. Added(e) \in [Outcomes -> Token]
    <3> HIDE DEF e
    <3>1. tokens \in [Outcomes -> Token]
      BY DEF TypeOK
    <3>2. [tokens[e.outcome] EXCEPT !.invested = @ + e.amount] \in Token
      BY <2>2, <3>1 DEF Token
    <3> QED BY <2>2, <3>1, <3>2 DEF Added
  <2>4. r = TradeRun(d)
    BY <1>1 DEF Begun
  <2> HIDE DEF e
  <2>5. r = [op |-> "trade", on |-> d, who |-> Idle.who, tokens |-> Added(e), market |-> market,
             work |-> {"selectTokens", "saveMarket", "parts"}, failed |-> FALSE, diff |-> {}]
    BY <2>4 DEF TradeRun, Idle, e
  <2>6. Idle.who \in Traders /\ market \in Market
    BY IdleFields DEF Run, TypeOK
  <2>7. r \in Run
    BY <2>3, <2>5, <2>6 DEF Run, Work
  <2> QED BY <1>1, <2>5, <2>7 DEF e
<1>2. CASE d.log.kind = "resolve"
  <2>1. Judged \in [Outcomes -> Token]
    BY DEF Judged, TypeOK, Token, Trueness
  <2>2. [market EXCEPT !.resolved = TRUE] \in Market
    BY DEF TypeOK, Market
  <2>3. r = ResolveRun(d)
    BY <1>2 DEF Begun
  <2>4. r = [op |-> "resolve", on |-> d, who |-> Idle.who, tokens |-> Judged,
             market |-> [market EXCEPT !.resolved = TRUE],
             work |-> {"selectTokens", "saveMarket"}, failed |-> FALSE, diff |-> {}]
    BY <2>3 DEF ResolveRun, Idle
  <2>5. Idle.who \in Traders
    BY IdleFields DEF Run
  <2>6. r \in Run
    BY <2>1, <2>2, <2>4, <2>5 DEF Run, Work
  <2> QED BY <1>2, <2>4, <2>6
<1>3. CASE d.log.kind = "redeem"
  <2>1. f \in RedeemEvent
    BY <1>0, <1>3, EventTypes
  <2>2. f.redeemer \in Traders
    BY <2>1 DEF RedeemEvent
  <2>3. r = RedeemRun(d)
    BY <1>3 DEF Begun
  <2> DEFINE work == (IF f.payout > 0 THEN {"history"} ELSE {})
                        \union (IF f.redeemer \in Users THEN {"monetize"} ELSE {})
  <2>4. r = [op |-> "redeem", on |-> d, who |-> f.redeemer, tokens |-> NewTokens,
             market |-> NewMarket, work |-> work, failed |-> FALSE, diff |-> {}]
    BY <2>3 DEF RedeemRun, Idle
  <2>5. work \subseteq {"history", "monetize"} /\ (f.payout > 0 => "history" \in work)
    OBVIOUS
  <2>6. NewTokens \in [Outcomes -> Token] /\ NewMarket \in Market
    BY IdleFields
  <2> HIDE DEF work, f
  <2>7. r \in Run
    BY <2>2, <2>4, <2>5, <2>6 DEF Run, Work
  <2> QED BY <1>3, <2>4, <2>5, <2>7 DEF f
<1> QED BY <1>0, <1>1, <1>2, <1>3, EventTypes

(* The fields of a request.                                                 *)
LEMMA SeenFields ==
    ASSUME TypeOK, NEW u \in Users, NEW r, r = SeenRun(u)
    PROVE  /\ r \in Run
           /\ r.op = "seen" /\ r.who = u /\ r.tokens = tokens /\ r.market = NewMarket
           /\ r.work = {"check"} /\ ~r.failed /\ r.diff = {}
<1>1. r = [op |-> "seen", on |-> Idle.on, who |-> u, tokens |-> tokens, market |-> NewMarket,
           work |-> {"check"}, failed |-> FALSE, diff |-> {}]
  BY DEF SeenRun, Idle
<1>2. u \in Traders /\ Idle.on \in Delivery /\ NewMarket \in Market
  BY TradersAssumption, IdleFields DEF Run
<1>3. r \in Run
  BY <1>1, <1>2 DEF Run, Work, TypeOK
<1> QED BY <1>1, <1>3

(* A run that goes on: a query has ended, and perhaps sent another.         *)
GoesOn(r, s) ==
    /\ r.work # {}
    /\ s.op = r.op /\ s.on = r.on /\ s.who = r.who
    /\ s.tokens \in {r.tokens, NewTokens} /\ (r.op = "seen" => s.tokens = r.tokens)
    /\ s.market \in {r.market, NewMarket}
    /\ r.failed => s.failed
    /\ s.diff = r.diff \/ s.diff = {} \/ \E h \in Handlers : r = run[h] /\ s.diff = TokenDiff(h)
    /\ s.work \subseteq WorkOf[r.op]
    /\ "tx" \in s.work => s.work = {"tx"} /\ LogsTx(s)
    /\ "parts" \in r.work =>
          "parts" \in s.work \/ s.failed \/ [of |-> r.on, monetized |-> FALSE] \in parts'
    /\ "history" \in r.work => "history" \in s.work \/ s.failed \/ r.on \in history'
    /\ "monetize" \in s.work =>
          \/ "monetize" \in r.work
          \/ \A o \in Outcomes : r.tokens[o].trueness = "1" => Balance(r.who, o) = 0

(* A query ends, and the run that sent it ends or goes on.                  *)
LEMMA QueryGoesOn ==
    ASSUME TypeInv, NEW h \in Handlers,
           Proceeds(h) \/ \E w \in Work : QueryFails(h, w)
    PROVE  \E s \in Run : /\ run' = [run EXCEPT ![h] = s]
                          /\ s = Idle \/ GoesOn(run[h], s)
<1> DEFINE r == run[h]
<1>0. /\ r \in Run /\ RunFits(r)
      /\ r.work \subseteq WorkOf[r.op] /\ r.op \in {"none", "trade", "resolve", "redeem", "seen"}
      /\ "tx" \in r.work => r.work = {"tx"} /\ LogsTx(r)
  BY DEF TypeInv, TypeOK, RunFits, Run
<1>1. ASSUME NEW q \in Run, NEW w \in Work, w \in r.work, NEW s, s = After(q, w),
             q.op = r.op, q.on = r.on, q.who = r.who, q.work = r.work,
             q.tokens \in {r.tokens, NewTokens}, r.op = "seen" => q.tokens = r.tokens,
             q.market \in {r.market, NewMarket}, r.failed => q.failed,
             q.diff = r.diff \/ q.diff = {},
             w = "parts" => q.failed \/ [of |-> r.on, monetized |-> FALSE] \in parts',
             w = "history" => q.failed \/ r.on \in history'
      PROVE  s \in Run /\ (s = Idle \/ GoesOn(r, s))
  <2> HIDE DEF r
  <2>1. s \in Run /\ (s = Idle \/ (Continues(q, s)
            /\ (s.work = q.work \ {w}
                 \/ (s.work = {"tx"} /\ LogsTx(q) /\ w # "tx" /\ q.work \subseteq {w}))))
    BY <1>1, AfterFields
  <2>2. CASE Continues(q, s) /\ s.work = q.work \ {w}
    BY <1>0, <1>1, <2>1, <2>2 DEF Continues, GoesOn
  <2>3. CASE Continues(q, s) /\ s.work = {"tx"} /\ LogsTx(q) /\ w # "tx" /\ q.work \subseteq {w}
    <3>1. s.op = "trade" \/ s.op = "redeem"
      BY <2>3 DEF LogsTx, Continues
    <3>2. LogsTx(s)
      BY <2>3 DEF LogsTx, Continues
    <3>3. "tx" \in WorkOf[r.op]
      BY <1>1, <2>3, <3>1 DEF WorkOf, Continues
    <3> QED BY <1>0, <1>1, <2>1, <2>3, <3>2, <3>3 DEF Continues, GoesOn
  <2> QED BY <2>1, <2>2, <2>3
<1>2. CASE SelectTokens(h)
  <2>1. "selectTokens" \in r.work /\ r.op \in {"trade", "resolve"}
    BY <1>0, <1>2 DEF SelectTokens, WorkOf
  <2>2. CASE TokenDiff(h) = {}
    <3>1. After(r, "selectTokens") \in Run
          /\ (After(r, "selectTokens") = Idle \/ GoesOn(r, After(r, "selectTokens")))
      BY <1>0, <1>1, <2>1 DEF Work
    <3>2. run' = [run EXCEPT ![h] = After(r, "selectTokens")]
      BY <1>2, <2>2 DEF SelectTokens
    <3> QED BY <3>1, <3>2
  <2>3. CASE TokenDiff(h) # {}
    <3> DEFINE s == [r EXCEPT !.work = (@ \ {"selectTokens"}) \union {"updateTokens"},
                              !.diff = TokenDiff(h)]
    <3>1. run' = [run EXCEPT ![h] = s]
      <4> DEFINE next == IF TokenDiff(h) = {} THEN After(r, "selectTokens") ELSE s
      <4>1. run' = [run EXCEPT ![h] = next]
        BY <1>2 DEF SelectTokens
      <4>2. next = s
        BY <2>3
      <4> QED BY <4>1, <4>2
    <3>2. TokenDiff(h) \in SUBSET (Outcomes \X {"invested", "trueness"})
      BY DEF TokenDiff
    <3>3. s.work \in SUBSET Work
      BY <1>0 DEF Run, Work
    <3>4. s \in Run
      BY <1>0, <3>2, <3>3 DEF Run
    <3>5. s.work \subseteq WorkOf[r.op] /\ "tx" \notin r.work
      BY <1>0, <2>1 DEF Run, WorkOf
    <3>6. GoesOn(r, s)
      BY <1>0, <2>1, <3>5 DEF GoesOn, Run
    <3> QED BY <3>1, <3>4, <3>6
  <2> QED BY <2>2, <2>3
<1>3. CASE UpdateTokens(h)
  <2> DEFINE q == [r EXCEPT !.tokens = NewTokens, !.diff = {}]
  <2>1. q \in Run /\ q.work = r.work /\ q.op = r.op /\ q.on = r.on /\ q.who = r.who
        /\ q.tokens = NewTokens /\ q.diff = {} /\ q.market = r.market /\ q.failed = r.failed
    BY <1>0, IdleFields DEF Run
  <2>2. "updateTokens" \in r.work /\ r.op \in {"trade", "resolve"}
    BY <1>0, <1>3 DEF UpdateTokens, WorkOf
  <2>3. run' = [run EXCEPT ![h] = After(q, "updateTokens")]
    BY <1>3 DEF UpdateTokens
  <2> HIDE DEF q, r
  <2>4. After(q, "updateTokens") \in Run
        /\ (After(q, "updateTokens") = Idle \/ GoesOn(r, After(q, "updateTokens")))
    BY <1>1, <2>1, <2>2 DEF Work
  <2> QED BY <2>3, <2>4 DEF r
<1>4. CASE SaveMarket(h)
  <2> DEFINE q == [r EXCEPT !.market = NewMarket]
  <2>1. q \in Run /\ q.work = r.work /\ q.op = r.op /\ q.on = r.on /\ q.who = r.who
        /\ q.tokens = r.tokens /\ q.diff = r.diff /\ q.market = NewMarket /\ q.failed = r.failed
    BY <1>0, IdleFields DEF Run
  <2>2. "saveMarket" \in r.work
    BY <1>4 DEF SaveMarket
  <2>3. run' = [run EXCEPT ![h] = After(q, "saveMarket")]
    BY <1>4 DEF SaveMarket
  <2> HIDE DEF q, r
  <2>4. After(q, "saveMarket") \in Run
        /\ (After(q, "saveMarket") = Idle \/ GoesOn(r, After(q, "saveMarket")))
    BY <1>1, <2>1, <2>2 DEF Work
  <2> QED BY <2>3, <2>4 DEF r
<1>5. ASSUME NEW w \in {"parts", "history", "monetize", "tx"}, w \in r.work,
             run' = [run EXCEPT ![h] = After(r, w)],
             w = "parts" => [of |-> r.on, monetized |-> FALSE] \in parts',
             w = "history" => r.on \in history'
      PROVE  \E s \in Run : /\ run' = [run EXCEPT ![h] = s]
                            /\ s = Idle \/ GoesOn(run[h], s)
  <2>1. w \in Work
    BY DEF Work
  <2> HIDE DEF r
  <2>2. After(r, w) \in Run /\ (After(r, w) = Idle \/ GoesOn(r, After(r, w)))
    BY <1>0, <1>1, <1>5, <2>1
  <2> QED BY <1>5, <2>2 DEF r
<1>7. CASE InsertHistory(h)
  BY <1>5, <1>7 DEF InsertHistory, Ends
<1>8. CASE Monetize(h)
  BY <1>5, <1>8 DEF Monetize, Ends
<1>9. CASE LogTransaction(h)
  BY <1>5, <1>9 DEF LogTransaction, Ends
<1>10. CASE Check(h)
  <2>1. "check" \in r.work /\ r.op = "seen"
    BY <1>0, <1>10 DEF Check, WorkOf
  <2>2. CASE run' = [run EXCEPT ![h] = Idle]
    BY <2>2, IdleFields
  <2>3. CASE /\ run' = [run EXCEPT ![h] = [r EXCEPT !.work = {"monetize"}]]
             /\ \A o \in Outcomes : r.tokens[o].trueness = "1" => Balance(r.who, o) = 0
    <3> DEFINE s == [r EXCEPT !.work = {"monetize"}]
    <3>1. {"monetize"} \in SUBSET Work /\ {"monetize"} \subseteq WorkOf[r.op]
      BY <2>1 DEF Work, WorkOf
    <3>2. s \in Run
      BY <1>0, <3>1 DEF Run
    <3>3. "parts" \notin r.work /\ "history" \notin r.work
      BY <1>0, <2>1 DEF WorkOf
    <3>4. GoesOn(r, s)
      BY <1>0, <2>1, <2>3, <3>1, <3>3 DEF GoesOn, Run
    <3> QED BY <2>3, <3>2, <3>4
  <2> QED BY <1>10, <2>2, <2>3 DEF Check
<1>11. ASSUME NEW w \in Work, w \in r.work, Throws(h, w)
       PROVE  \E s \in Run : /\ run' = [run EXCEPT ![h] = s]
                             /\ s = Idle \/ GoesOn(run[h], s)
  <2> DEFINE q == [r EXCEPT !.failed = TRUE]
  <2>1. q \in Run /\ q.work = r.work /\ q.op = r.op /\ q.on = r.on /\ q.who = r.who
        /\ q.tokens = r.tokens /\ q.diff = r.diff /\ q.market = r.market /\ q.failed
    BY <1>0 DEF Run
  <2>2. w \in r.work /\ run' = [run EXCEPT ![h] = After(q, w)]
    BY <1>11 DEF Throws
  <2> HIDE DEF q, r
  <2>3. After(q, w) \in Run /\ (After(q, w) = Idle \/ GoesOn(r, After(q, w)))
    BY <1>1, <2>1, <2>2
  <2> QED BY <2>2, <2>3 DEF r
<1>6. CASE InsertParticipation(h)
  <2>1. "parts" \in r.work /\ "parts" \in Work
    BY <1>6 DEF InsertParticipation, Work
  <2>2. CASE Throws(h, "parts")
    BY <1>11, <2>1, <2>2
  <2>3. CASE Ends(h, "parts") /\ parts' = parts \union {[of |-> run[h].on, monetized |-> FALSE]}
    <3>1. run' = [run EXCEPT ![h] = After(r, "parts")]
      BY <2>3 DEF Ends
    <3>2. [of |-> r.on, monetized |-> FALSE] \in parts'
      BY <2>3
    <3> QED BY <1>5, <2>1, <3>1, <3>2
  <2> QED BY <1>6, <2>2, <2>3 DEF InsertParticipation
<1>12. ASSUME NEW w \in Work, QueryFails(h, w)
       PROVE  w \in r.work /\ Throws(h, w)
  BY <1>12 DEF QueryFails
<1> QED BY <1>2, <1>3, <1>4, <1>6, <1>7, <1>8, <1>9, <1>10, <1>11, <1>12 DEF Proceeds

(* A run begins with a delivery, or with the request of a user.             *)
Begins(h, d) ==
    /\ ~Active(h)
    /\ Emitted(d.log) /\ ~Dropped(d.log)
    /\ d.nth = delivered[d.log] + 1
    /\ delivered' = [delivered EXCEPT ![d.log] = d.nth]
    /\ run' = [run EXCEPT ![h] = Begun(d)]
    /\ run'[h] = Begun(d)

Requests(h) ==
    \E u \in Users : /\ ~Active(h) /\ market.resolved
                     /\ run' = [run EXCEPT ![h] = SeenRun(u)]
                     /\ run'[h] = SeenRun(u)

(* The delivery that an action of the indexer stands for.                   *)
LEMMA DeliveryFields ==
    ASSUME TypeInv, NEW l \in Log, delivered[l] = 0 \/ (again /\ delivered[l] = 1),
           NEW d, d = [log |-> l, nth |-> delivered[l] + 1]
    PROVE  /\ d \in Delivery /\ d.log = l /\ d.nth = delivered[l] + 1
           /\ delivered \in [Log -> 0 .. 2]
           /\ [delivered EXCEPT ![l] = @ + 1] \in [Log -> 0 .. 2]
           /\ [delivered EXCEPT ![l] = @ + 1] = [delivered EXCEPT ![d.log] = d.nth]
<1>1. delivered \in [Log -> 0 .. 2]
  BY DEF TypeInv, TypeOK
<1>2. delivered[l] + 1 \in 1 .. 2
  BY <1>1
<1> QED BY <1>1, <1>2 DEF Delivery

(* What becomes of the runs in a step, and whose they are.                  *)
LEMMA RunChanges ==
    ASSUME TypeInv, [Next]_vars
    PROVE  /\ run' \in [Handlers -> Run]
           /\ \A h \in Handlers :
                \/ run'[h] = run[h]
                \/ run'[h] = Idle
                \/ GoesOn(run[h], run'[h])
                \/ \E d \in Delivery : Begins(h, d)
                \/ Requests(h)
<1> DEFINE Result == /\ run' \in [Handlers -> Run]
                     /\ \A h \in Handlers :
                          \/ run'[h] = run[h]
                          \/ run'[h] = Idle
                          \/ GoesOn(run[h], run'[h])
                          \/ \E d \in Delivery : Begins(h, d)
                          \/ Requests(h)
<1>0. run \in [Handlers -> Run] /\ TypeOK
  BY DEF TypeInv, TypeOK
<1>1. CASE run' = run
  BY <1>0, <1>1
<1>2. ASSUME NEW g \in Handlers, Proceeds(g) \/ \E w \in Work : QueryFails(g, w)
      PROVE  Result
  <2>1. PICK s \in Run : run' = [run EXCEPT ![g] = s] /\ (s = Idle \/ GoesOn(run[g], s))
    BY <1>2, QueryGoesOn
  <2> QED BY <1>0, <2>1
<1>3. ASSUME NEW g \in Handlers, NEW l \in Log, Deliver(g, l)
      PROVE  Result
  <2> DEFINE d == [log |-> l, nth |-> delivered[l] + 1]
  <2>1. /\ ~Active(g) /\ Emitted(l) /\ (delivered[l] = 0 \/ (again /\ delivered[l] = 1))
        /\ delivered' = [delivered EXCEPT ![l] = @ + 1]
    BY <1>3 DEF Deliver
  <2>2. d \in Delivery /\ d.log = l /\ d.nth = delivered[l] + 1
        /\ delivered' = [delivered EXCEPT ![d.log] = d.nth]
    BY <2>1, DeliveryFields
  <2>3. CASE Dropped(l)
    BY <1>1, <1>3, <2>3 DEF Deliver
  <2>4. CASE ~Dropped(l)
    <3>1. run' = [run EXCEPT ![g] = IF Begun(d).work = {} THEN Idle ELSE Begun(d)]
      BY <1>3, <2>4 DEF Deliver, Begun
    <3> HIDE DEF d
    <3>2. Begun(d) \in Run
      BY <1>0, <2>1, <2>2, BegunFields
    <3>3. CASE Begun(d).work = {}
      BY <1>0, <3>1, <3>3, IdleFields
    <3>4. CASE Begun(d).work # {}
      <4>1. run' = [run EXCEPT ![g] = Begun(d)]
        BY <3>1, <3>4
      <4>2. run'[g] = Begun(d)
        BY <1>0, <4>1
      <4>3. Begins(g, d)
        BY <2>1, <2>2, <2>4, <4>1, <4>2 DEF Begins
      <4> QED BY <1>0, <2>2, <3>2, <4>1, <4>3
    <3> QED BY <3>3, <3>4
  <2> QED BY <2>3, <2>4
<1>4. ASSUME NEW g \in Handlers, NEW u \in Users, SeesResult(g, u)
      PROVE  Result
  <2>1. ~Active(g) /\ market.resolved /\ run' = [run EXCEPT ![g] = SeenRun(u)]
    BY <1>4 DEF SeesResult, SeenRun
  <2>2. SeenRun(u) \in Run
    BY <1>0, SeenFields
  <2>3. Requests(g)
    BY <1>0, <2>1 DEF Requests
  <2> QED BY <1>0, <2>1, <2>2, <2>3
<1>5. CASE StartsOver
  BY <1>0, <1>5, IdleFields DEF StartsOver
<1>6. CASE Chain
  BY <1>1, <1>6 DEF Chain, Trades, ContractCloses, RowCloses, Reports, RedeemsOnChain
<1>7. ASSUME NEW l \in Log, LoadFails(l)
      PROVE  Result
  BY <1>1, <1>7 DEF LoadFails
<1>8. CASE UNCHANGED vars
  BY <1>1, <1>8 DEF vars
<1> QED BY <1>2, <1>3, <1>4, <1>5, <1>6, <1>7, <1>8 DEF Next

-----------------------------------------------------------------------------
(* Types                                                                   *)

(* There is a participation of the delivery d.                              *)
Recorded(d) == \E p \in parts : p.of = d

(* What a step never takes back.                                            *)
LEMMA StateGrows ==
    ASSUME TypeInv, [Next]_vars
    PROVE  /\ winner' = winner
           /\ phase = "reported" => phase' = "reported" /\ trades' = trades
           /\ \A i \in DOMAIN trades : i \in DOMAIN trades' /\ trades'[i] = trades[i]
           /\ \A i \in DOMAIN redeems : i \in DOMAIN redeems' /\ redeems'[i] = redeems[i]
           /\ delivered' \in [Log -> 0 .. 2] /\ \A l \in Log : delivered[l] <= delivered'[l]
           /\ \A l \in Log : Emitted(l) => Emitted(l)'
           /\ \A d : Recorded(d) => Recorded(d)'
           /\ history \subseteq history'
           /\ faults' = 0 => faults = 0
<1> DEFINE Result == /\ winner' = winner
                     /\ phase = "reported" => phase' = "reported" /\ trades' = trades
                     /\ Len(trades') \in Nat /\ Len(trades) <= Len(trades')
                     /\ Len(redeems') \in Nat /\ Len(redeems) <= Len(redeems')
                     /\ \A i \in DOMAIN trades : i \in DOMAIN trades' /\ trades'[i] = trades[i]
                     /\ \A i \in DOMAIN redeems : i \in DOMAIN redeems' /\ redeems'[i] = redeems[i]
                     /\ delivered' \in [Log -> 0 .. 2]
                     /\ \A l \in Log : delivered[l] <= delivered'[l]
                     /\ \A p \in parts : \E q \in parts' : q.of = p.of
                     /\ history \subseteq history'
                     /\ faults' = 0 => faults = 0
<1>0. /\ trades \in Seq(TradeEvent) /\ redeems \in Seq(RedeemEvent)
      /\ Len(trades) \in Nat /\ Len(redeems) \in Nat
      /\ delivered \in [Log -> 0 .. 2] /\ faults \in Nat
      /\ \A l \in Log : l.kind \in {"trade", "resolve", "redeem"} /\ (l.kind # "resolve" => l.no \in Nat)
  BY LedgerBounds DEF TypeInv, TypeOK, Log
<1>1. ASSUME UNCHANGED <<phase, winner, trades, redeems, delivered, parts, history, faults>>
      PROVE  Result
  <2>1. delivered' \in [Log -> 0 .. 2] /\ \A l \in Log : delivered[l] <= delivered'[l]
    BY <1>0, <1>1
  <2> QED BY <1>0, <1>1, <2>1
<1>2. ASSUME NEW t \in Traders, NEW o \in Outcomes, NEW a \in Amounts, Trades(t, o, a)
      PROVE  Result
  <2>1. trades' = Append(trades, [trader |-> t, outcome |-> o, amount |-> a]) /\ phase = "open"
        /\ UNCHANGED <<phase, winner, redeems, delivered, parts, history, faults>>
    BY <1>2 DEF Trades, dbVars
  <2>2. Len(trades') = Len(trades) + 1 /\ \A i \in DOMAIN trades : i \in DOMAIN trades' /\ trades'[i] = trades[i]
    BY <1>0, <2>1
  <2> QED BY <1>0, <2>1, <2>2
<1>3. ASSUME NEW t \in Traders, RedeemsOnChain(t)
      PROVE  Result
  <2>1. redeems' = Append(redeems, [redeemer |-> t, payout |-> Balance(t, winner)])
        /\ UNCHANGED <<phase, winner, trades, delivered, parts, history, faults>>
    BY <1>3 DEF RedeemsOnChain, dbVars
  <2>2. Len(redeems') = Len(redeems) + 1
        /\ \A i \in DOMAIN redeems : i \in DOMAIN redeems' /\ redeems'[i] = redeems[i]
    BY <1>0, <2>1
  <2> QED BY <1>0, <2>1, <2>2
<1>4. ASSUME ContractCloses \/ RowCloses \/ Reports
      PROVE  Result
  <2>1. /\ UNCHANGED <<winner, trades, redeems, delivered, parts, history, faults>>
        /\ phase # "reported"
    BY <1>4 DEF ContractCloses, RowCloses, Reports, dbVars
  <2>2. delivered' \in [Log -> 0 .. 2] /\ \A l \in Log : delivered[l] <= delivered'[l]
    BY <1>0, <2>1
  <2> QED BY <1>0, <2>1, <2>2
<1>5. ASSUME NEW h \in Handlers, NEW l \in Log, Deliver(h, l)
      PROVE  Result
  <2>1. delivered' = [delivered EXCEPT ![l] = @ + 1] /\ delivered' \in [Log -> 0 .. 2]
        /\ UNCHANGED <<phase, winner, trades, redeems, parts, history, faults>>
    BY <1>5, DeliveryFields DEF Deliver, chainVars, dbVars
  <2> QED BY <1>0, <2>1
<1>6. ASSUME NEW l \in Log, LoadFails(l)
      PROVE  Result
  <2>1. delivered' = [delivered EXCEPT ![l] = @ + 1] /\ delivered' \in [Log -> 0 .. 2]
        /\ UNCHANGED <<phase, winner, trades, redeems, parts, history>> /\ faults' = faults + 1
    BY <1>6, DeliveryFields DEF LoadFails, chainVars, dbVars
  <2> QED BY <1>0, <2>1
<1>7. ASSUME NEW h \in Handlers, NEW u \in Users, SeesResult(h, u)
      PROVE  Result
  BY <1>1, <1>7 DEF SeesResult, chainVars, dbVars
<1>8. ASSUME NEW h \in Handlers, Proceeds(h)
      PROVE  Result
  <2>1. CASE SelectTokens(h) \/ UpdateTokens(h) \/ SaveMarket(h) \/ Check(h) \/ LogTransaction(h)
    BY <1>1, <2>1 DEF SelectTokens, UpdateTokens, SaveMarket, Check, LogTransaction, chainVars, dbVars
  <2>2. CASE InsertParticipation(h)
    <3>1. UNCHANGED <<phase, winner, trades, redeems, delivered, history, faults>> /\ parts \subseteq parts'
      BY <2>2 DEF InsertParticipation, chainVars
    <3> QED BY <1>0, <3>1
  <2>3. CASE InsertHistory(h)
    BY <1>0, <2>3 DEF InsertHistory, chainVars
  <2>4. CASE Monetize(h)
    <3>1. UNCHANGED <<phase, winner, trades, redeems, delivered, history, faults>>
      BY <2>4 DEF Monetize, chainVars
    <3>2. ASSUME NEW p \in parts
          PROVE  \E q \in parts' : q.of = p.of
      <4>1. [p EXCEPT !.monetized = TRUE].of = p.of
        BY DEF TypeInv, TypeOK
      <4> QED BY <2>4, <4>1 DEF Monetize
    <3> QED BY <1>0, <3>1, <3>2
  <2> QED BY <1>8, <2>1, <2>2, <2>3, <2>4 DEF Proceeds
<1>9. ASSUME NEW h \in Handlers, NEW w \in Work, QueryFails(h, w)
      PROVE  Result
  <2>1. /\ UNCHANGED <<phase, winner, trades, redeems, delivered, parts, history>>
        /\ faults' = faults + 1
    BY <1>9 DEF QueryFails, chainVars, dbVars
  <2>2. delivered' \in [Log -> 0 .. 2] /\ \A l \in Log : delivered[l] <= delivered'[l]
    BY <1>0, <2>1
  <2> QED BY <1>0, <2>1, <2>2
<1>10. ASSUME StartsOver
       PROVE  Result
  <2>1. /\ UNCHANGED <<phase, winner, trades, redeems, delivered, parts, history>>
        /\ faults' = faults + 1
    BY <1>10 DEF StartsOver, chainVars, dbVars
  <2>2. delivered' \in [Log -> 0 .. 2] /\ \A l \in Log : delivered[l] <= delivered'[l]
    BY <1>0, <2>1
  <2> QED BY <1>0, <2>1, <2>2
<1>11. ASSUME UNCHANGED vars
       PROVE  Result
  BY <1>1, <1>11 DEF vars
<1>12. Result
  <2> HIDE DEF Result
  <2> QED BY <1>2, <1>3, <1>4, <1>5, <1>6, <1>7, <1>8, <1>9, <1>10, <1>11 DEF Next, Chain
<1>13. \A l \in Log : Emitted(l) => Emitted(l)'
  <2> SUFFICES ASSUME NEW l \in Log, Emitted(l) PROVE Emitted(l)'
    OBVIOUS
  <2>1. CASE l.kind = "trade"
    BY <1>0, <1>12, <2>1 DEF Emitted
  <2>2. CASE l.kind = "resolve"
    BY <1>12, <2>2 DEF Emitted
  <2>3. CASE l.kind = "redeem"
    BY <1>0, <1>12, <2>3 DEF Emitted
  <2> QED BY <1>0, <2>1, <2>2, <2>3
<1>14. \A d : Recorded(d) => Recorded(d)'
  BY <1>12 DEF Recorded
<1> QED BY <1>12, <1>13, <1>14

(* What a trader has bought is an integer.                                  *)
LEMMA BoughtType ==
    ASSUME TypeOK, NEW t, NEW o
    PROVE  Bought(t, o) \in Int
<1> DEFINE S == {i \in DOMAIN trades : trades[i].trader = t /\ trades[i].outcome = o}
           f == [i \in DOMAIN trades |-> trades[i].amount]
<1>1. trades \in Seq(TradeEvent) /\ DOMAIN trades = 1 .. Len(trades) /\ Len(trades) \in Nat
  BY DEF TypeOK
<1>2. IsFiniteSet(S)
  <2>1. S \subseteq 1 .. Len(trades)
    BY <1>1
  <2> HIDE DEF S
  <2>2. IsFiniteSet(1 .. Len(trades))
    BY <1>1, FS_Interval
  <2> QED BY <2>1, <2>2, FS_Subset
<1>3. \A i \in S : f[i] \in Int
  <2>1. \A i \in DOMAIN trades : trades[i] \in TradeEvent
    BY <1>1
  <2>2. \A i \in DOMAIN trades : trades[i].amount \in Amounts
    BY <2>1 DEF TradeEvent
  <2> QED BY <2>2, AmountTypes
<1> HIDE DEF S, f
<1>4. SumFunctionOnSet(f, S) \in Int
  BY <1>2, <1>3, SumType
<1> QED BY <1>4 DEF Bought, S, f

(* A trade changes what its trader has bought of its outcome, and nothing    *)
(* else that was bought.                                                   *)
LEMMA BoughtByTrade ==
    ASSUME TypeOK, NEW t \in Traders, NEW o \in Outcomes, NEW a \in Amounts, Trades(t, o, a),
           NEW u, NEW q
    PROVE  Bought(u, q)' = Bought(u, q) + (IF u = t /\ q = o THEN a ELSE 0)
<1> DEFINE S == {i \in DOMAIN trades : trades[i].trader = u /\ trades[i].outcome = q}
           T == {i \in DOMAIN trades' : trades'[i].trader = u /\ trades'[i].outcome = q}
           f == [i \in DOMAIN trades |-> trades[i].amount]
           g == [i \in DOMAIN trades' |-> trades'[i].amount]
           n == Len(trades) + 1
<1>1. trades \in Seq(TradeEvent) /\ DOMAIN trades = 1 .. Len(trades) /\ Len(trades) \in Nat
  BY DEF TypeOK
<1>2. trades' = Append(trades, [trader |-> t, outcome |-> o, amount |-> a])
  BY DEF Trades
<1>3. /\ DOMAIN trades' = DOMAIN trades \union {n} /\ n \notin DOMAIN trades
      /\ \A i \in DOMAIN trades : trades'[i] = trades[i]
      /\ trades'[n] = [trader |-> t, outcome |-> o, amount |-> a]
  BY <1>1, <1>2
<1>4. IsFiniteSet(S)
  <2>1. S \subseteq 1 .. Len(trades)
    BY <1>1
  <2> HIDE DEF S
  <2>2. IsFiniteSet(1 .. Len(trades))
    BY <1>1, FS_Interval
  <2> QED BY <2>1, <2>2, FS_Subset
<1>5. /\ \A i \in S : f[i] \in Int /\ g[i] = f[i]
      /\ g[n] = a /\ a \in Int
  <2>1. \A i \in DOMAIN trades : trades[i] \in TradeEvent
    BY <1>1
  <2>2. \A i \in DOMAIN trades : trades[i].amount \in Amounts
    BY <2>1 DEF TradeEvent
  <2> QED BY <1>3, <2>2, AmountTypes
<1>6. T = IF u = t /\ q = o THEN S \union {n} ELSE S
  BY <1>3
<1>7. n \notin S
  BY <1>3
<1>8. Bought(u, q) = SumFunctionOnSet(f, S) /\ Bought(u, q)' = SumFunctionOnSet(g, T)
  BY DEF Bought
<1> HIDE DEF S, T, f, g, n
<1>9. SumFunctionOnSet(g, S) = SumFunctionOnSet(f, S)
  BY <1>4, <1>5, SumSame
<1>10. SumFunctionOnSet(g, S \union {n}) = SumFunctionOnSet(g, S) + g[n]
  <2>1. \A i \in S \union {n} : g[i] \in Int
    BY <1>5
  <2> QED BY <1>4, <1>7, <2>1, SumAdds
<1>11. SumFunctionOnSet(f, S) \in Int
  BY <1>4, <1>5, SumType
<1> QED BY <1>5, <1>6, <1>8, <1>9, <1>10, <1>11

(* A trader's balance is an amount of tokens.                               *)
LEMMA BalanceType ==
    ASSUME TypeInv, NEW t \in Traders, NEW o \in Outcomes
    PROVE  Balance(t, o) \in Nat
<1>1. Bought(t, o) \in Int /\ Bought(t, o) >= 0
  BY BoughtType DEF TypeInv, ChainFits
<1> QED BY <1>1 DEF Balance

(* The row of an outcome token after an UPDATE.                             *)
LEMMA PatchedTokenFields ==
    ASSUME TypeOK, NEW h \in Handlers, NEW o \in Outcomes
    PROVE  /\ PatchedToken(h, o) \in Token
           /\ PatchedToken(h, o).invested = IF <<o, "invested">> \in run[h].diff
                                            THEN run[h].tokens[o].invested ELSE tokens[o].invested
           /\ PatchedToken(h, o).trueness = IF <<o, "trueness">> \in run[h].diff
                                            THEN run[h].tokens[o].trueness ELSE tokens[o].trueness
<1>1. tokens[o] \in Token /\ run[h].tokens[o] \in Token
  BY DEF TypeOK, Run
<1> QED BY <1>1 DEF PatchedToken, Token

(* Every step keeps the types.                                              *)
LEMMA TypeOKNext ==
    ASSUME TypeInv, [Next]_vars
    PROVE  TypeOK'
<1>0. run' \in [Handlers -> Run] /\ delivered' \in [Log -> 0 .. 2] /\ winner' \in Outcomes
  BY RunChanges, StateGrows DEF TypeInv, TypeOK
<1>1. TypeOK
  BY DEF TypeInv
<1>2. ASSUME UNCHANGED <<phase, trades, redeems, market, tokens, parts, history, txs, ignored>>,
             overlapped' \in BOOLEAN, again' \in BOOLEAN, faults' \in 0 .. MaxFaults
      PROVE  TypeOK'
  BY <1>0, <1>1, <1>2 DEF TypeOK
<1>3. \A h \in Handlers : run[h] \in Run /\ run[h].on \in Delivery
  BY <1>1 DEF TypeOK, Run
<1>4. ASSUME NEW t \in Traders, NEW o \in Outcomes, NEW a \in Amounts, Trades(t, o, a)
      PROVE  TypeOK'
  <2>1. [trader |-> t, outcome |-> o, amount |-> a] \in TradeEvent
    BY DEF TradeEvent
  <2>2. /\ trades' = Append(trades, [trader |-> t, outcome |-> o, amount |-> a])
        /\ Len(trades) < MaxTrades
        /\ UNCHANGED <<phase, redeems, market, tokens, parts, history, txs, ignored,
                       overlapped, again, faults>>
    BY <1>4 DEF Trades, dbVars
  <2>3. trades' \in Seq(TradeEvent) /\ Len(trades') <= MaxTrades
    BY <1>1, <2>1, <2>2, LedgerBounds DEF TypeOK
  <2> QED BY <1>0, <1>1, <2>2, <2>3 DEF TypeOK
<1>5. ASSUME NEW t \in Traders, RedeemsOnChain(t)
      PROVE  TypeOK'
  <2> DEFINE e == [redeemer |-> t, payout |-> Balance(t, winner)]
  <2>1. e \in RedeemEvent
    <3>1. Balance(t, winner) \in Nat
      BY <1>1, BalanceType DEF TypeOK
    <3> QED BY <3>1 DEF RedeemEvent
  <2>2. /\ redeems' = Append(redeems, e) /\ Len(redeems) < MaxRedeems
        /\ UNCHANGED <<phase, trades, market, tokens, parts, history, txs, ignored,
                       overlapped, again, faults>>
    BY <1>5 DEF RedeemsOnChain, dbVars
  <2> HIDE DEF e
  <2>3. redeems' \in Seq(RedeemEvent) /\ Len(redeems') <= MaxRedeems
    BY <1>1, <2>1, <2>2, LedgerBounds DEF TypeOK
  <2> QED BY <1>0, <1>1, <2>2, <2>3 DEF TypeOK
<1>6. CASE ContractCloses \/ Reports
  <2>1. /\ phase' \in {"closing", "reported"}
        /\ UNCHANGED <<trades, redeems, market, tokens, parts, history, txs, ignored,
                       overlapped, again, faults>>
    BY <1>6 DEF ContractCloses, Reports, dbVars
  <2> QED BY <1>0, <1>1, <2>1 DEF TypeOK
<1>7. CASE RowCloses
  <2>1. [market EXCEPT !.closed = TRUE] \in Market
    BY <1>1 DEF TypeOK, Market
  <2>2. /\ phase' = "closed" /\ market' = [market EXCEPT !.closed = TRUE]
        /\ UNCHANGED <<trades, redeems, tokens, parts, history, txs, ignored,
                       overlapped, again, faults>>
    BY <1>7 DEF RowCloses
  <2> QED BY <1>0, <1>1, <2>1, <2>2 DEF TypeOK
<1>8. ASSUME NEW h \in Handlers, NEW l \in Log, Deliver(h, l)
      PROVE  TypeOK'
  <2> DEFINE d == [log |-> l, nth |-> delivered[l] + 1]
  <2>1. d \in Delivery
    BY <1>8, DeliveryFields DEF Deliver
  <2>2. /\ UNCHANGED <<phase, trades, redeems, market, tokens, parts, history, txs, again, faults>>
        /\ ignored' \in {ignored, ignored \union {d}}
        /\ overlapped' = overlapped
            \/ overlapped' = (overlapped \/ (l.kind # "redeem" /\ \E g \in Handlers : HoldsTokens(g)))
    BY <1>8 DEF Deliver, chainVars, dbVars
  <2>3. overlapped' \in BOOLEAN
    BY <1>1, <2>2 DEF TypeOK
  <2>4. ignored' \in SUBSET Delivery
    BY <1>1, <2>1, <2>2 DEF TypeOK
  <2> QED BY <1>0, <1>1, <2>2, <2>3, <2>4 DEF TypeOK
<1>9. ASSUME NEW l \in Log, LoadFails(l)
      PROVE  TypeOK'
  <2>1. faults' \in 0 .. MaxFaults
    BY <1>1, <1>9, LedgerBounds DEF TypeOK, LoadFails, MayFail
  <2> QED BY <1>1, <1>2, <1>9, <2>1 DEF TypeOK, LoadFails, chainVars, dbVars
<1>10. ASSUME NEW h \in Handlers, NEW u \in Users, SeesResult(h, u)
       PROVE  TypeOK'
  BY <1>1, <1>2, <1>10 DEF TypeOK, SeesResult, chainVars, dbVars
<1>11. ASSUME NEW h \in Handlers, Proceeds(h)
       PROVE  TypeOK'
  <2>1. CASE SelectTokens(h) \/ Check(h)
    BY <1>1, <1>2, <2>1 DEF TypeOK, SelectTokens, Check, chainVars, dbVars
  <2>2. CASE UpdateTokens(h)
    <3>1. tokens' \in [Outcomes -> Token]
      BY <1>1, <2>2, PatchedTokenFields DEF UpdateTokens
    <3>2. UNCHANGED <<phase, trades, redeems, market, parts, history, txs, ignored, overlapped, again, faults>>
      BY <2>2 DEF UpdateTokens, chainVars
    <3> QED BY <1>0, <1>1, <3>1, <3>2 DEF TypeOK
  <2>3. CASE SaveMarket(h)
    <3>1. market' \in Market
      BY <1>3, <2>3 DEF SaveMarket, Run
    <3>2. UNCHANGED <<phase, trades, redeems, tokens, parts, history, txs, ignored, overlapped, again, faults>>
      BY <2>3 DEF SaveMarket, chainVars
    <3> QED BY <1>0, <1>1, <3>1, <3>2 DEF TypeOK
  <2>4. CASE InsertParticipation(h)
    <3>1. parts' \in SUBSET [of : Delivery, monetized : BOOLEAN]
      <4>1. [of |-> run[h].on, monetized |-> FALSE] \in [of : Delivery, monetized : BOOLEAN]
        BY <1>3
      <4>2. parts \in SUBSET [of : Delivery, monetized : BOOLEAN]
        BY <1>1 DEF TypeOK
      <4>3. parts' = parts \/ parts' = parts \union {[of |-> run[h].on, monetized |-> FALSE]}
        BY <2>4 DEF InsertParticipation
      <4> QED BY <4>1, <4>2, <4>3
    <3>2. UNCHANGED <<phase, trades, redeems, market, tokens, history, txs, ignored, overlapped, again, faults>>
      BY <2>4 DEF InsertParticipation, chainVars
    <3> QED BY <1>0, <1>1, <3>1, <3>2 DEF TypeOK
  <2>5. CASE Monetize(h)
    <3>1. parts' \in SUBSET [of : Delivery, monetized : BOOLEAN]
      <4>1. \A p \in parts : p \in [of : Delivery, monetized : BOOLEAN]
                              /\ [p EXCEPT !.monetized = TRUE] \in [of : Delivery, monetized : BOOLEAN]
        BY <1>1 DEF TypeOK
      <4> QED BY <2>5, <4>1 DEF Monetize
    <3>2. UNCHANGED <<phase, trades, redeems, market, tokens, history, txs, ignored, overlapped, again, faults>>
      BY <2>5 DEF Monetize, chainVars
    <3> QED BY <1>0, <1>1, <3>1, <3>2 DEF TypeOK
  <2>6. CASE InsertHistory(h)
    <3>1. history' \in SUBSET Delivery
      BY <1>1, <1>3, <2>6 DEF InsertHistory, TypeOK
    <3>2. UNCHANGED <<phase, trades, redeems, market, tokens, parts, txs, ignored, overlapped, again, faults>>
      BY <2>6 DEF InsertHistory, chainVars
    <3> QED BY <1>0, <1>1, <3>1, <3>2 DEF TypeOK
  <2>7. CASE LogTransaction(h)
    <3>1. txs' \in SUBSET Delivery
      BY <1>1, <1>3, <2>7 DEF LogTransaction, TypeOK
    <3>2. UNCHANGED <<phase, trades, redeems, market, tokens, parts, history, ignored, overlapped, again, faults>>
      BY <2>7 DEF LogTransaction, chainVars
    <3> QED BY <1>0, <1>1, <3>1, <3>2 DEF TypeOK
  <2> QED BY <1>11, <2>1, <2>2, <2>3, <2>4, <2>5, <2>6, <2>7 DEF Proceeds
<1>12. ASSUME NEW h \in Handlers, NEW w \in Work, QueryFails(h, w)
       PROVE  TypeOK'
  <2>1. faults' \in 0 .. MaxFaults
    BY <1>1, <1>12, LedgerBounds DEF TypeOK, QueryFails, MayFail
  <2> QED BY <1>1, <1>2, <1>12, <2>1 DEF TypeOK, QueryFails, chainVars, dbVars
<1>13. CASE StartsOver
  <2>1. faults' \in 0 .. MaxFaults
    BY <1>1, <1>13, LedgerBounds DEF TypeOK, StartsOver, MayFail
  <2> QED BY <1>1, <1>2, <1>13, <2>1 DEF TypeOK, StartsOver, chainVars, dbVars
<1>14. CASE UNCHANGED vars
  BY <1>1, <1>2, <1>14 DEF TypeOK, vars
<1> QED BY <1>4, <1>5, <1>6, <1>7, <1>8, <1>9, <1>10, <1>11, <1>12, <1>13, <1>14 DEF Next, Chain

(* What is known has happened, before and after every step.                 *)
LEMMA ChainFitsNext ==
    ASSUME TypeInv, [Next]_vars
    PROVE  ChainFits'
<1>1. TypeOK /\ ChainFits /\ TypeOK'
  BY TypeOKNext DEF TypeInv
<1>2. \A h \in Handlers : run[h] \in Run /\ RunFits(run[h])
  BY DEF TypeInv, TypeOK
<1>3. redeems' # <<>> => phase' = "reported"
  <2>1. CASE \E t \in Traders : RedeemsOnChain(t)
    BY <2>1 DEF RedeemsOnChain
  <2>2. CASE redeems' = redeems
    BY <1>1, <2>2, StateGrows DEF ChainFits
  <2>3. redeems' = redeems \/ \E t \in Traders : RedeemsOnChain(t)
    BY DEF Next, Chain, Trades, ContractCloses, RowCloses, Reports, Deliver, LoadFails, SeesResult,
           Proceeds, SelectTokens, UpdateTokens, SaveMarket, InsertParticipation, InsertHistory,
           Monetize, Check, LogTransaction, QueryFails, StartsOver, chainVars, vars
  <2> QED BY <2>1, <2>2, <2>3
<1>4. \A t \in Traders, o \in Outcomes : Bought(t, o)' >= 0
  <2>1. ASSUME NEW t \in Traders, NEW o \in Outcomes, NEW a \in Amounts, Trades(t, o, a),
               NEW u \in Traders, NEW q \in Outcomes
        PROVE  Bought(u, q)' >= 0
    <3>1. Bought(u, q)' = Bought(u, q) + (IF u = t /\ q = o THEN a ELSE 0)
      BY <1>1, <2>1, BoughtByTrade
    <3>2. redeems = <<>>
      BY <1>1, <2>1 DEF Trades, ChainFits
    <3>3. Bought(t, o) + a >= 0
      BY <2>1, <3>2 DEF Trades, Balance
    <3>4. Bought(u, q) >= 0 /\ Bought(u, q) \in Int /\ a \in Int
      BY <1>1, BoughtType, AmountTypes DEF ChainFits
    <3> QED BY <3>1, <3>3, <3>4
  <2>2. CASE trades' = trades
    BY <1>1, <2>2 DEF ChainFits, Bought
  <2>3. \/ trades' = trades
        \/ \E t \in Traders, o \in Outcomes, a \in Amounts : Trades(t, o, a)
    BY DEF Next, Chain, RedeemsOnChain, ContractCloses, RowCloses, Reports, Deliver, LoadFails,
           SeesResult, Proceeds, SelectTokens, UpdateTokens, SaveMarket, InsertParticipation,
           InsertHistory, Monetize, Check, LogTransaction, QueryFails, StartsOver, chainVars, vars
  <2> QED BY <2>1, <2>2, <2>3
<1>5. market'.resolved => phase' = "reported"
  <2>1. CASE RowCloses
    <3>1. market'.resolved = market.resolved /\ phase # "reported"
      BY <1>1, <2>1 DEF RowCloses, TypeOK, Market
    <3> QED BY <1>1, <3>1 DEF ChainFits
  <2>2. ASSUME NEW h \in Handlers, SaveMarket(h)
        PROVE  market'.resolved => phase' = "reported"
    BY <1>2, <2>2, StateGrows DEF SaveMarket, RunFits
  <2>3. CASE market' = market
    BY <1>1, <2>3, StateGrows DEF ChainFits
  <2>4. market' = market \/ RowCloses \/ \E h \in Handlers : SaveMarket(h)
    BY DEF Next, Chain, Trades, RedeemsOnChain, ContractCloses, Reports, Deliver, LoadFails,
           SeesResult, Proceeds, SelectTokens, UpdateTokens, InsertParticipation,
           InsertHistory, Monetize, Check, LogTransaction, QueryFails, StartsOver, dbVars, vars
  <2> QED BY <2>1, <2>2, <2>3, <2>4
<1>6. \A l \in Log : delivered'[l] > 0 => Emitted(l)'
  <2>1. ASSUME NEW l \in Log, Emitted(l), delivered' = [delivered EXCEPT ![l] = @ + 1], NEW m \in Log,
               delivered'[m] > 0
        PROVE  Emitted(m)'
    BY <1>1, <2>1, StateGrows DEF ChainFits, TypeOK
  <2>2. CASE delivered' = delivered
    BY <1>1, <2>2, StateGrows DEF ChainFits
  <2>3. \/ delivered' = delivered
        \/ \E l \in Log : Emitted(l) /\ delivered' = [delivered EXCEPT ![l] = @ + 1]
    BY DEF Next, Chain, Trades, RedeemsOnChain, ContractCloses, RowCloses, Reports, Deliver, LoadFails,
           SeesResult, Proceeds, SelectTokens, UpdateTokens, SaveMarket, InsertParticipation,
           InsertHistory, Monetize, Check, LogTransaction, QueryFails, StartsOver, vars
  <2> QED BY <2>1, <2>2, <2>3
<1>7. /\ \A p \in parts' : p.of.log.kind = "trade" /\ p.of.nth <= delivered'[p.of.log]
      /\ IsFiniteSet(parts')
  <2>1. /\ \A p \in parts : p.of.log.kind = "trade" /\ p.of.nth <= delivered'[p.of.log]
        /\ IsFiniteSet(parts)
    <3>1. \A p \in parts : p.of.log \in Log /\ p.of.nth \in Nat
      BY <1>1 DEF TypeOK, Delivery
    <3>2. \A l \in Log : delivered[l] \in Nat /\ delivered'[l] \in Nat /\ delivered[l] <= delivered'[l]
      <4>1. delivered \in [Log -> 0 .. 2] /\ delivered' \in [Log -> 0 .. 2]
        BY <1>1 DEF TypeOK
      <4>2. \A l \in Log : delivered[l] <= delivered'[l]
        BY StateGrows
      <4> QED BY <4>1, <4>2
    <3> QED BY <1>1, <3>1, <3>2 DEF ChainFits
  <2>2. ASSUME NEW h \in Handlers, InsertParticipation(h)
        PROVE  /\ \A p \in parts' : p.of.log.kind = "trade" /\ p.of.nth <= delivered'[p.of.log]
               /\ IsFiniteSet(parts')
    <3>1. run[h].op = "trade"
      BY <1>2, <2>2 DEF InsertParticipation, RunFits, WorkOf, Run
    <3>2. run[h].on.log.kind = "trade" /\ run[h].on.nth <= delivered'[run[h].on.log]
      BY <1>2, <2>2, <3>1 DEF RunFits, InsertParticipation
    <3> DEFINE new == [of |-> run[h].on, monetized |-> FALSE]
    <3>3. (parts' = parts \/ parts' = parts \union {new}) /\ new.of = run[h].on
      BY <2>2 DEF InsertParticipation
    <3> HIDE DEF new
    <3> QED BY <2>1, <3>2, <3>3, FS_AddElement
  <2>3. ASSUME NEW h \in Handlers, Monetize(h)
        PROVE  /\ \A p \in parts' : p.of.log.kind = "trade" /\ p.of.nth <= delivered'[p.of.log]
               /\ IsFiniteSet(parts')
    <3> DEFINE m == [p \in parts |-> IF EventOf(p).trader = run[h].who
                                     THEN [p EXCEPT !.monetized = TRUE] ELSE p]
    <3>1. parts' = {m[p] : p \in parts} /\ \A p \in parts : m[p].of = p.of
      BY <1>1, <2>3 DEF Monetize, TypeOK
    <3>2. m \in Surjection(parts, parts')
      <4> HIDE DEF m
      <4>1. m \in [parts -> parts']
        BY <3>1 DEF m
      <4> QED BY <3>1, <4>1 DEF Surjection
    <3> HIDE DEF m
    <3>3. IsFiniteSet(parts')
      BY <2>1, <3>2, FS_Surjection
    <3> QED BY <2>1, <3>1, <3>3
  <2>4. CASE parts' = parts
    BY <2>1, <2>4
  <2>5. parts' = parts \/ \E h \in Handlers : InsertParticipation(h) \/ Monetize(h)
    BY DEF Next, Chain, Trades, RedeemsOnChain, ContractCloses, RowCloses, Reports, Deliver, LoadFails,
           SeesResult, Proceeds, SelectTokens, UpdateTokens, SaveMarket, InsertHistory, Check,
           LogTransaction, QueryFails, StartsOver, dbVars, vars
  <2> QED BY <2>2, <2>3, <2>4, <2>5
<1>8. \A d \in ignored' : d.nth <= delivered'[d.log]
  <2>0. /\ delivered \in [Log -> 0 .. 2] /\ delivered' \in [Log -> 0 .. 2]
        /\ \A l \in Log : delivered[l] <= delivered'[l]
        /\ \A d \in ignored : d.log \in Log /\ d.nth \in Nat /\ d.nth <= delivered[d.log]
    BY <1>1, StateGrows DEF TypeOK, ChainFits, Delivery
  <2>1. \A d \in ignored : d.nth <= delivered'[d.log]
    BY <2>0
  <2>2. ASSUME NEW h \in Handlers, NEW l \in Log, Deliver(h, l)
        PROVE  \A d \in ignored' : d.nth <= delivered'[d.log]
    <3> DEFINE d == [log |-> l, nth |-> delivered[l] + 1]
    <3>1. delivered' = [delivered EXCEPT ![l] = @ + 1] /\ ignored' \in {ignored, ignored \union {d}}
      BY <2>2 DEF Deliver
    <3>2. d.log = l /\ d.nth = delivered'[l] /\ d.nth \in Nat
      BY <2>0, <3>1
    <3>3. d.nth <= delivered'[d.log]
      BY <3>2
    <3> HIDE DEF d
    <3> QED BY <2>1, <3>1, <3>3
  <2>3. ignored' = ignored \/ \E h \in Handlers, l \in Log : Deliver(h, l)
    BY DEF Next, Chain, Trades, RedeemsOnChain, ContractCloses, RowCloses, Reports, LoadFails,
           SeesResult, Proceeds, SelectTokens, UpdateTokens, SaveMarket, InsertParticipation, InsertHistory,
           Monetize, Check, LogTransaction, QueryFails, StartsOver, vars
  <2> QED BY <2>1, <2>2, <2>3
<1> QED BY <1>3, <1>4, <1>5, <1>6, <1>7, <1>8 DEF ChainFits

(* The event that a run handles.                                            *)
LEMMA RunEvents ==
    ASSUME TypeInv, NEW h \in Handlers, run[h].op \in {"trade", "redeem"}
    PROVE  /\ run[h].on.log \in Log /\ Emitted(run[h].on.log) /\ delivered[run[h].on.log] > 0
           /\ run[h].op = "trade" =>
                run[h].on.log.no \in DOMAIN trades /\ trades[run[h].on.log.no] \in TradeEvent
           /\ run[h].op = "redeem" =>
                run[h].on.log.no \in DOMAIN redeems /\ redeems[run[h].on.log.no] \in RedeemEvent
<1>1. TypeOK /\ ChainFits /\ run[h] \in Run /\ RunFits(run[h]) /\ delivered \in [Log -> 0 .. 2]
  BY DEF TypeInv, TypeOK
<1>2. run[h].on.log \in Log /\ run[h].on.nth \in 1 .. 2
  BY <1>1 DEF Run, Delivery
<1>3. run[h].on.log.kind = run[h].op /\ delivered[run[h].on.log] > 0
  BY <1>1, <1>2 DEF RunFits
<1>4. Emitted(run[h].on.log)
  BY <1>1, <1>2, <1>3 DEF ChainFits
<1> QED BY <1>1, <1>2, <1>3, <1>4, EventTypes

(* The runs handle what was delivered, before and after every step.         *)
LEMMA RunsFitNext ==
    ASSUME TypeInv, [Next]_vars, NEW h \in Handlers
    PROVE  RunFits(run[h])'
<1>1. TypeOK /\ ChainFits /\ TypeOK' /\ ChainFits' /\ run[h] \in Run /\ RunFits(run[h])
  BY TypeOKNext, ChainFitsNext DEF TypeInv, TypeOK
<1>2. /\ delivered \in [Log -> 0 .. 2] /\ delivered' \in [Log -> 0 .. 2]
      /\ \A l \in Log : delivered[l] <= delivered'[l]
  BY <1>1, StateGrows DEF TypeOK
<1>3. ASSUME run[h].op \in {"trade", "redeem"}
      PROVE  /\ run[h].on.nth <= delivered'[run[h].on.log] /\ run[h].on.log.kind = run[h].op
             /\ run[h].op = "redeem" => redeems'[run[h].on.log.no] = redeems[run[h].on.log.no]
  <2>1. run[h].on.log \in Log /\ run[h].on.nth \in 1 .. 2
    BY <1>1 DEF Run, Delivery
  <2>2. run[h].on.log.kind = run[h].op /\ run[h].on.nth <= delivered[run[h].on.log]
    BY <1>1, <1>3 DEF RunFits
  <2>3. run[h].on.nth <= delivered'[run[h].on.log]
    BY <1>2, <2>1, <2>2
  <2> QED BY <1>3, <2>2, <2>3, RunEvents, StateGrows
<1>5. CASE run'[h] = run[h]
  BY <1>1, <1>3, <1>5, StateGrows DEF RunFits, LogsTx
<1>6. CASE run'[h] = Idle
  BY <1>6, IdleFields DEF RunFits, WorkOf
<1>7. CASE GoesOn(run[h], run'[h])
  <2> DEFINE r == run[h]
             s == run'[h]
  <2>1. s \in Run
    BY <1>1 DEF TypeOK
  <2>2. s.op = r.op /\ s.on = r.on /\ s.who = r.who /\ s.work \subseteq WorkOf[s.op]
        /\ s.market \in {r.market, NewMarket} /\ ("tx" \in s.work => s.work = {"tx"} /\ LogsTx(s))
    BY <1>7 DEF GoesOn
  <2>3. "tx" \in s.work => r.op \in {"trade", "redeem"}
    BY <2>2 DEF LogsTx
  <2>4. "tx" \in run'[h].work => LogsTx(run[h])'
    BY <1>3, <2>2, <2>3 DEF LogsTx
  <2>5. r.op = "redeem" => s.who = redeems'[s.on.log.no].redeemer
    BY <1>1, <1>3, <2>2 DEF RunFits
  <2>6. s.op \in {"resolve", "seen"} \/ s.market.resolved => phase' = "reported"
    BY <1>1, <2>2, StateGrows, IdleFields DEF RunFits
  <2> QED BY <1>3, <2>2, <2>4, <2>5, <2>6 DEF RunFits
<1>8. ASSUME NEW d \in Delivery, Begins(h, d)
      PROVE  RunFits(run[h])'
  <2> DEFINE s == run'[h]
  <2>1. d.log \in Log /\ Emitted(d.log) /\ d.nth \in 1 .. 2 /\ s = Begun(d) /\ d.nth <= delivered'[d.log]
    BY <1>2, <1>8 DEF Begins, Delivery
  <2>2. Emitted(d.log)'
    BY <2>1, StateGrows
  <2> HIDE DEF s
  <2>3. /\ s.op = d.log.kind /\ s.on = d
        /\ s.op = "trade" => s.market = market /\ s.work = {"selectTokens", "saveMarket", "parts"}
        /\ s.op = "resolve" => s.work = {"selectTokens", "saveMarket"}
        /\ s.op = "redeem" => s.market = NewMarket /\ s.who = redeems[d.log.no].redeemer
                               /\ s.work \subseteq {"history", "monetize"}
    BY <1>1, <2>1, BegunFields
  <2>4. s.op \in {"trade", "resolve", "redeem"} /\ "tx" \notin s.work /\ s.work \subseteq WorkOf[s.op]
    BY <1>1, <2>1, <2>3, EventTypes DEF WorkOf
  <2>5. s.op = "resolve" => phase' = "reported"
    BY <2>2, <2>3 DEF Emitted
  <2>6. s.op = "trade" /\ s.market.resolved => phase' = "reported"
    BY <1>1, <2>3, StateGrows DEF ChainFits
  <2>7. s.op = "redeem" => redeems'[d.log.no] = redeems[d.log.no]
    BY <1>1, <2>1, <2>3, EventTypes, StateGrows
  <2> QED BY <2>1, <2>3, <2>4, <2>5, <2>6, <2>7, IdleFields DEF RunFits, s
<1>9. CASE Requests(h)
  <2>1. PICK u \in Users : market.resolved /\ run'[h] = SeenRun(u)
    BY <1>9 DEF Requests
  <2>2. run'[h].op = "seen" /\ run'[h].work = {"check"} /\ run'[h].market = NewMarket
    BY <1>1, <2>1, SeenFields
  <2>3. phase' = "reported"
    BY <1>1, <2>1, StateGrows DEF ChainFits
  <2> QED BY <2>2, <2>3, IdleFields DEF RunFits, WorkOf
<1> QED BY <1>5, <1>6, <1>7, <1>8, <1>9, RunChanges

(* The type invariant and what is due are inductive.                        *)
LEMMA TypeNext == TypeInv /\ [Next]_vars => TypeInv'
BY TypeOKNext, ChainFitsNext, RunsFitNext DEF TypeInv

(* Initially nothing was traded, and nothing is under way.                  *)
LEMMA TypeInit == Init => TypeInv
<1> SUFFICES ASSUME Init PROVE TypeInv
  OBVIOUS
<1>1. TypeOK
  <2>1. \A l \in Log : 0 \in 0 .. 2
    OBVIOUS
  <2>2. 0 \in 0 .. MaxFaults /\ 0 <= MaxTrades /\ 0 <= MaxRedeems
    BY LedgerBounds
  <2>3. /\ phase \in {"open", "closing", "closed", "reported"} /\ winner \in Outcomes
        /\ market \in Market /\ tokens \in [Outcomes -> Token] /\ run \in [Handlers -> Run]
    BY IdleFields DEF Init
  <2>4. /\ trades \in Seq(TradeEvent) /\ Len(trades) <= MaxTrades
        /\ redeems \in Seq(RedeemEvent) /\ Len(redeems) <= MaxRedeems
    BY <2>2 DEF Init
  <2>5. delivered \in [Log -> 0 .. 2] /\ faults \in 0 .. MaxFaults
    BY <2>1, <2>2 DEF Init
  <2> QED BY <2>3, <2>4, <2>5 DEF Init, TypeOK
<1>2. \A t \in Traders, o \in Outcomes : Bought(t, o) >= 0
  <2> TAKE t \in Traders, o \in Outcomes
  <2>1. {i \in DOMAIN trades : trades[i].trader = t /\ trades[i].outcome = o} = {}
    BY DEF Init
  <2>2. Bought(t, o) = 0
    BY <2>1, SumOfNothing DEF Bought
  <2> QED BY <2>2
<1>3. ChainFits
  BY <1>2, IdleFields, FS_EmptySet DEF Init, ChainFits
<1>4. \A h \in Handlers : RunFits(run[h])
  BY IdleFields DEF Init, RunFits, WorkOf
<1> QED BY <1>1, <1>3, <1>4 DEF TypeInv

(* The rows and the runs have their types, and what they hold of the chain   *)
(* has happened there, whatever handlers overlap, fail or are repeated.     *)
THEOREM LedgerInvariant == Spec => []TypeInv
BY TypeInit, TypeNext, PTL DEF Spec

(* Every variable of the ledger has its type.                               *)
THEOREM LedgerTypes == Spec => []TypeOK
<1>1. TypeInv => TypeOK
  BY DEF TypeInv
<1> QED BY <1>1, LedgerInvariant, PTL

-----------------------------------------------------------------------------
(* The transaction log                                                     *)

(* What a handler has recorded, unless a query of it failed or is to come.  *)
RunRecords(r) ==
    /\ r.op = "trade" => r.failed \/ "parts" \in r.work \/ Recorded(r.on)
    /\ r.op = "redeem" => \/ r.failed \/ "history" \in r.work \/ r.on \in history
                          \/ redeems[r.on.log.no].payout = 0

LoggedInv == LoggedMeansRecorded /\ \A h \in Handlers : RunRecords(run[h])

(* Each step keeps it.                                                      *)
LEMMA LoggedNext == TypeInv /\ LoggedInv /\ [Next]_vars => LoggedInv'
<1> SUFFICES ASSUME TypeInv, LoggedInv, [Next]_vars PROVE LoggedInv'
  OBVIOUS
<1>1. TypeOK /\ \A h \in Handlers : run[h] \in Run /\ RunFits(run[h]) /\ RunRecords(run[h])
  BY DEF TypeInv, TypeOK, LoggedInv
<1>2. LoggedMeansRecorded'
  <2>1. ASSUME NEW d \in txs
        PROVE  \/ d.log.kind = "trade" /\ \E p \in parts' : p.of = d
               \/ d.log.kind = "redeem" /\ d \in history'
    BY <2>1, StateGrows DEF LoggedInv, LoggedMeansRecorded, Recorded
  <2>2. ASSUME NEW h \in Handlers, LogTransaction(h), NEW d, d = run[h].on
        PROVE  \/ d.log.kind = "trade" /\ \E p \in parts' : p.of = d
               \/ d.log.kind = "redeem" /\ d \in history'
    <3>1. run[h].work = {"tx"} /\ LogsTx(run[h])
      BY <1>1, <2>2 DEF LogTransaction, RunFits
    <3>2. CASE run[h].op = "trade"
      <4>1. Recorded(d)
        BY <1>1, <2>2, <3>1, <3>2 DEF LogsTx, RunRecords
      <4> QED BY <1>1, <2>2, <3>2, <4>1, StateGrows DEF RunFits, Recorded
    <3>3. CASE run[h].op = "redeem"
      <4>1. d \in history
        BY <1>1, <2>2, <3>1, <3>3 DEF LogsTx, RunRecords
      <4> QED BY <1>1, <2>2, <3>3, <4>1, StateGrows DEF RunFits
    <3> QED BY <3>1, <3>2, <3>3 DEF LogsTx
  <2>3. txs' = txs \/ \E h \in Handlers : LogTransaction(h) /\ txs' = txs \union {run[h].on}
    BY DEF Next, Chain, Trades, RedeemsOnChain, ContractCloses, RowCloses, Reports, Deliver, LoadFails,
           SeesResult, Proceeds, SelectTokens, UpdateTokens, SaveMarket, InsertParticipation,
           InsertHistory, Monetize, Check, LogTransaction, QueryFails, StartsOver, dbVars, vars
  <2> QED BY <2>1, <2>2, <2>3 DEF LoggedMeansRecorded
<1>3. ASSUME NEW h \in Handlers
      PROVE  RunRecords(run[h])'
  <2> DEFINE r == run[h]
  <2>1. /\ history \subseteq history' /\ \A d : Recorded(d) => \E p \in parts' : p.of = d
        /\ r.op = "redeem" => redeems'[r.on.log.no] = redeems[r.on.log.no]
    <3>1. r.op = "redeem" => r.on.log.no \in DOMAIN redeems
      BY RunEvents
    <3>2. \A d : Recorded(d) => \E p \in parts' : p.of = d
      BY StateGrows DEF Recorded
    <3> QED BY <3>1, <3>2, StateGrows
  <2>2. CASE run'[h] = run[h]
    BY <1>1, <2>1, <2>2 DEF RunRecords, Recorded
  <2>3. CASE run'[h] = Idle
    BY <2>3, IdleFields DEF RunRecords
  <2>4. CASE GoesOn(run[h], run'[h])
    <3> DEFINE s == run'[h]
    <3>1. s.op = r.op /\ s.on = r.on /\ (r.failed => s.failed)
          /\ ("parts" \in r.work => "parts" \in s.work \/ s.failed \/ \E p \in parts' : p.of = r.on)
          /\ ("history" \in r.work => "history" \in s.work \/ s.failed \/ r.on \in history')
      <4>1. [of |-> r.on, monetized |-> FALSE].of = r.on
        OBVIOUS
      <4> QED BY <2>4, <4>1 DEF GoesOn
    <3>2. r.op = "trade" => s.failed \/ "parts" \in s.work \/ \E p \in parts' : p.of = r.on
      BY <1>1, <2>1, <3>1 DEF RunRecords
    <3>3. r.op = "redeem" => \/ s.failed \/ "history" \in s.work \/ r.on \in history'
                             \/ redeems'[r.on.log.no].payout = 0
      BY <1>1, <2>1, <3>1 DEF RunRecords
    <3> QED BY <3>1, <3>2, <3>3 DEF RunRecords, Recorded
  <2>5. ASSUME NEW d \in Delivery, Begins(h, d)
        PROVE  RunRecords(run[h])'
    <3> DEFINE s == run'[h]
    <3>1. d.log \in Log /\ Emitted(d.log) /\ s = Begun(d)
      BY <2>5 DEF Begins, Delivery
    <3> HIDE DEF s
    <3>2. /\ s.op = d.log.kind /\ s.on = d
          /\ s.op = "trade" => s.work = {"selectTokens", "saveMarket", "parts"}
          /\ s.op = "redeem" => (redeems[d.log.no].payout > 0 => "history" \in s.work)
      BY <1>1, <3>1, BegunFields
    <3>3. s.op = "redeem" => redeems'[d.log.no] = redeems[d.log.no] /\ redeems[d.log.no].payout \in Nat
      <4>1. s.op = "redeem" => d.log.no \in DOMAIN redeems /\ redeems[d.log.no] \in RedeemEvent
        BY <1>1, <3>1, <3>2, EventTypes
      <4> QED BY <4>1, StateGrows DEF RedeemEvent
    <3> QED BY <3>2, <3>3 DEF RunRecords, s
  <2>6. CASE Requests(h)
    <3>1. run'[h].op = "seen"
      BY <1>1, <2>6, SeenFields DEF Requests
    <3> QED BY <3>1 DEF RunRecords
  <2> QED BY <2>2, <2>3, <2>4, <2>5, <2>6, RunChanges
<1> QED BY <1>2, <1>3 DEF LoggedInv

(* An event is in the transaction log only if what it stands for was        *)
(* recorded: whatever queries of its handler, or of others, fail.           *)
THEOREM LoggedIsRecorded == Spec => []LoggedMeansRecorded
<1>1. Init => LoggedInv
  BY IdleFields DEF Init, LoggedInv, LoggedMeansRecorded, RunRecords
<1>2. LoggedInv => LoggedMeansRecorded
  BY DEF LoggedInv
<1> QED BY <1>1, <1>2, LoggedNext, LedgerInvariant, PTL DEF Spec

-----------------------------------------------------------------------------
(* The judgement of the outcomes                                           *)

(* All tokens of a copy of the rows are judged, or none is.                 *)
AllJudged(toks) == \A o \in Outcomes : toks[o].trueness = (IF o = winner THEN "1" ELSE "0")
NoneJudged(toks) == \A o \in Outcomes : toks[o].trueness = "null"
Uniform(toks) == AllJudged(toks) \/ NoneJudged(toks)

(* So an UPDATE writes the truenesses of all tokens, or of none.            *)
AllOrNone(D) == \A o, q \in Outcomes : <<o, "trueness">> \in D <=> <<q, "trueness">> \in D

JudgedInv ==
    /\ Uniform(tokens)
    /\ \A h \in Handlers : Uniform(run[h].tokens) /\ AllOrNone(run[h].diff)
    /\ \A p \in parts : p.monetized => phase = "reported"

(* The copies with which runs begin are uniform if the rows are.            *)
LEMMA UniformCopies ==
    ASSUME TypeOK, Uniform(tokens)
    PROVE  /\ Uniform(NewTokens) /\ Uniform(Judged)
           /\ \A e \in TradeEvent : Uniform(Added(e))
<1>1. Uniform(NewTokens)
  BY DEF Uniform, NoneJudged, NewTokens
<1>2. tokens \in [Outcomes -> Token]
  BY DEF TypeOK
<1>3. \A o \in Outcomes : Judged[o].trueness = IF o = winner THEN "1" ELSE "0"
  BY <1>2 DEF Judged, Token
<1>4. ASSUME NEW e \in TradeEvent, NEW o \in Outcomes
      PROVE  Added(e)[o].trueness = tokens[o].trueness
  BY <1>2 DEF Added, Token, TradeEvent
<1> QED BY <1>1, <1>3, <1>4 DEF Uniform, AllJudged, NoneJudged

(* The columns that differ between uniform copies.                          *)
LEMMA UniformDiff ==
    ASSUME NEW h \in Handlers, Uniform(tokens), Uniform(run[h].tokens)
    PROVE  AllOrNone(TokenDiff(h))
<1>1. \A o \in Outcomes : <<o, "trueness">> \in TokenDiff(h)
                             <=> run[h].tokens[o].trueness # tokens[o].trueness
  <2> TAKE o \in Outcomes
  <2> DEFINE c == <<o, "trueness">>
  <2>1. c \in Outcomes \X {"invested", "trueness"} /\ c[1] = o /\ c[2] = "trueness"
    OBVIOUS
  <2>2. run[h].tokens[o]["trueness"] = run[h].tokens[o].trueness
        /\ tokens[o]["trueness"] = tokens[o].trueness
    OBVIOUS
  <2> HIDE DEF c
  <2>3. c \in TokenDiff(h) <=> run[h].tokens[o].trueness # tokens[o].trueness
    BY <2>1, <2>2 DEF TokenDiff
  <2> QED BY <2>3 DEF c
<1> QED BY <1>1 DEF AllOrNone, Uniform, AllJudged, NoneJudged

(* Each step keeps the tokens, and all copies of them, uniform.             *)
LEMMA JudgedNext == TypeInv /\ JudgedInv /\ [Next]_vars => JudgedInv'
<1> SUFFICES ASSUME TypeInv, JudgedInv, [Next]_vars PROVE JudgedInv'
  OBVIOUS
<1>1. /\ TypeOK /\ Uniform(tokens) /\ winner' = winner
      /\ \A h \in Handlers : /\ run[h] \in Run /\ RunFits(run[h])
                             /\ Uniform(run[h].tokens) /\ AllOrNone(run[h].diff)
  BY StateGrows DEF TypeInv, TypeOK, JudgedInv
<1>2. Uniform(tokens)'
  <2>1. CASE tokens' = tokens
    BY <1>1, <2>1 DEF Uniform, AllJudged, NoneJudged
  <2>2. ASSUME NEW h \in Handlers, UpdateTokens(h)
        PROVE  Uniform(tokens)'
    <3>1. \A o \in Outcomes : tokens'[o].trueness = IF <<o, "trueness">> \in run[h].diff
                                  THEN run[h].tokens[o].trueness ELSE tokens[o].trueness
      BY <1>1, <2>2, PatchedTokenFields DEF UpdateTokens
    <3>2. \/ \A o \in Outcomes : tokens'[o].trueness = run[h].tokens[o].trueness
          \/ \A o \in Outcomes : tokens'[o].trueness = tokens[o].trueness
      BY <1>1, <3>1 DEF AllOrNone
    <3> QED BY <1>1, <3>2 DEF Uniform, AllJudged, NoneJudged
  <2>3. tokens' = tokens \/ \E h \in Handlers : UpdateTokens(h)
    BY DEF Next, Chain, Trades, RedeemsOnChain, ContractCloses, RowCloses, Reports, Deliver, LoadFails,
           SeesResult, Proceeds, SelectTokens, SaveMarket, InsertParticipation, InsertHistory,
           Monetize, Check, LogTransaction, QueryFails, StartsOver, dbVars, vars
  <2> QED BY <2>1, <2>2, <2>3
<1>3. ASSUME NEW h \in Handlers
      PROVE  Uniform(run'[h].tokens) /\ AllOrNone(run'[h].diff)
  <2>1. AllOrNone({})
    BY DEF AllOrNone
  <2>2. CASE run'[h] = run[h]
    BY <1>1, <2>2
  <2>3. CASE run'[h] = Idle
    BY <1>1, <2>1, <2>3, IdleFields, UniformCopies
  <2>4. CASE GoesOn(run[h], run'[h])
    <3>1. Uniform(run'[h].tokens)
      BY <1>1, <2>4, UniformCopies DEF GoesOn
    <3>2. ASSUME NEW g \in Handlers, run[h] = run[g], run'[h].diff = TokenDiff(g)
          PROVE  AllOrNone(run'[h].diff)
      BY <1>1, <3>2, UniformDiff
    <3>3. AllOrNone(run'[h].diff)
      BY <1>1, <2>1, <2>4, <3>2 DEF GoesOn
    <3> QED BY <3>1, <3>3
  <2>5. ASSUME NEW d \in Delivery, Begins(h, d)
        PROVE  Uniform(run'[h].tokens) /\ AllOrNone(run'[h].diff)
    <3>1. d.log \in Log /\ Emitted(d.log) /\ run'[h] = Begun(d)
      BY <2>5 DEF Begins, Delivery
    <3> DEFINE s == run'[h]
    <3> HIDE DEF s
    <3>2. /\ s.op = d.log.kind /\ s.diff = {}
          /\ s.op = "trade" => s.tokens = Added(trades[d.log.no])
          /\ s.op = "resolve" => s.tokens = Judged
          /\ s.op = "redeem" => s.tokens = NewTokens
      BY <1>1, <3>1, BegunFields DEF s
    <3>3. s.op \in {"trade", "resolve", "redeem"}
          /\ (s.op = "trade" => trades[d.log.no] \in TradeEvent)
      BY <1>1, <3>1, <3>2, EventTypes
    <3> QED BY <1>1, <2>1, <3>2, <3>3, UniformCopies DEF s
  <2>6. CASE Requests(h)
    <3>1. run'[h].tokens = tokens /\ run'[h].diff = {}
      BY <1>1, <2>6, SeenFields DEF Requests
    <3> QED BY <1>1, <2>1, <3>1
  <2> QED BY <2>2, <2>3, <2>4, <2>5, <2>6, RunChanges
<1>4. ASSUME NEW p \in parts', p.monetized
      PROVE  phase' = "reported"
  <2>1. ASSUME NEW h \in Handlers, InsertParticipation(h)
        PROVE  phase' = "reported"
    <3>1. parts' = parts \/ parts' = parts \union {[of |-> run[h].on, monetized |-> FALSE]}
      BY <2>1 DEF InsertParticipation
    <3>2. p \in parts
      BY <1>4, <3>1
    <3> QED BY <1>4, <3>2, StateGrows DEF JudgedInv
  <2>2. ASSUME NEW h \in Handlers, Monetize(h)
        PROVE  phase' = "reported"
    <3>1. run[h].op \in {"redeem", "seen"}
      BY <1>1, <2>2 DEF Monetize, RunFits, WorkOf, Run
    <3>2. run[h].op = "redeem" => redeems # <<>>
      <4>1. run[h].op = "redeem" => run[h].on.log.no \in DOMAIN redeems
        BY RunEvents
      <4> QED BY <4>1
    <3> QED BY <1>1, <3>1, <3>2, StateGrows DEF RunFits, TypeInv, ChainFits
  <2>3. CASE parts' = parts
    BY <1>4, <2>3, StateGrows DEF JudgedInv
  <2>4. parts' = parts \/ \E h \in Handlers : InsertParticipation(h) \/ Monetize(h)
    BY DEF Next, Chain, Trades, RedeemsOnChain, ContractCloses, RowCloses, Reports, Deliver, LoadFails,
           SeesResult, Proceeds, SelectTokens, UpdateTokens, SaveMarket, InsertHistory, Check,
           LogTransaction, QueryFails, StartsOver, dbVars, vars
  <2> QED BY <2>1, <2>2, <2>3, <2>4
<1>5. \A h \in Handlers : Uniform(run[h].tokens)' /\ AllOrNone(run[h].diff)'
  BY <1>1, <1>3 DEF Uniform, AllJudged, NoneJudged, AllOrNone
<1> QED BY <1>2, <1>4, <1>5 DEF JudgedInv

(* The outcomes are judged together in every state, and a participation is   *)
(* marked only once payouts are reported.                                  *)
THEOREM OutcomesJudgedTogether == Spec => []JudgedTogether
<1>1. Init => JudgedInv
  BY IdleFields DEF Init, JudgedInv, Uniform, NoneJudged, AllOrNone, NewTokens
<1>2. JudgedInv => JudgedTogether
  BY DEF JudgedInv, JudgedTogether, Uniform, AllJudged, NoneJudged
<1> QED BY <1>1, <1>2, JudgedNext, LedgerInvariant, PTL DEF Spec

-----------------------------------------------------------------------------
(* The mark of who has nothing to claim                                    *)

(* A request that is to mark its user's participations has found that the   *)
(* user has nothing to claim, or tokens that nobody has judged.             *)
RunClaims(r) ==
    r.op = "seen" /\ "monetize" \in r.work =>
        \A t \in Traders, o \in Outcomes :
            t = r.who /\ o = winner => Balance(t, o) = 0 \/ r.tokens[o].trueness = "null"

ClaimInv == \A h \in Handlers : RunClaims(run[h])

(* Once payouts are reported nobody trades: who holds nothing will not.     *)
LEMMA NothingStays ==
    ASSUME TypeInv, [Next]_vars, phase = "reported", NEW t, NEW o, Balance(t, o) = 0
    PROVE  Balance(t, o)' = 0
<1>1. trades' = trades /\ \A i \in DOMAIN redeems : i \in DOMAIN redeems' /\ redeems'[i] = redeems[i]
  BY StateGrows
<1>2. CASE \E i \in DOMAIN redeems : redeems[i].redeemer = t
  BY <1>1, <1>2 DEF Balance
<1>3. CASE ~ \E i \in DOMAIN redeems : redeems[i].redeemer = t
  <2>1. Bought(t, o) = 0
    BY <1>3 DEF Balance
  <2>2. Bought(t, o)' = Bought(t, o)
    BY <1>1 DEF Bought
  <2> QED BY <2>1, <2>2 DEF Balance
<1> QED BY <1>2, <1>3

(* Each step keeps what the requests have found.                            *)
LEMMA ClaimNext == TypeInv /\ JudgedInv /\ ClaimInv /\ [Next]_vars => ClaimInv'
<1> SUFFICES ASSUME TypeInv, JudgedInv, ClaimInv, [Next]_vars, NEW h \in Handlers
             PROVE  RunClaims(run[h])'
  BY DEF ClaimInv
<1>1. /\ TypeOK /\ RunFits(run[h]) /\ RunClaims(run[h]) /\ Uniform(run[h].tokens)
      /\ winner \in Outcomes /\ winner' = winner
  BY StateGrows DEF TypeInv, TypeOK, ClaimInv, JudgedInv
<1>2. SUFFICES ASSUME run'[h].op = "seen", "monetize" \in run'[h].work,
                      NEW t \in Traders, NEW o \in Outcomes, t = run'[h].who, o = winner
               PROVE  Balance(t, o)' = 0 \/ run'[h].tokens[o].trueness = "null"
  BY <1>1 DEF RunClaims
<1>3. ASSUME run[h].op = "seen", Balance(t, o) = 0
      PROVE  Balance(t, o)' = 0
  BY <1>1, <1>3, NothingStays DEF RunFits
<1>4. CASE run'[h] = run[h]
  BY <1>1, <1>2, <1>3, <1>4 DEF RunClaims
<1>5. CASE run'[h] = Idle
  BY <1>2, <1>5, IdleFields
<1>6. CASE GoesOn(run[h], run'[h])
  <2>1. run[h].op = "seen" /\ t = run[h].who /\ run'[h].tokens = run[h].tokens
    BY <1>2, <1>6 DEF GoesOn
  <2>2. CASE "monetize" \in run[h].work
    BY <1>1, <1>2, <1>3, <2>1, <2>2 DEF RunClaims
  <2>3. CASE \A q \in Outcomes : run[h].tokens[q].trueness = "1" => Balance(t, q) = 0
    BY <1>1, <1>2, <1>3, <2>1, <2>3 DEF Uniform, AllJudged, NoneJudged
  <2> QED BY <1>2, <1>6, <2>1, <2>2, <2>3 DEF GoesOn
<1>7. ASSUME NEW d \in Delivery, Begins(h, d)
      PROVE  FALSE
  <2>1. d.log \in Log /\ Emitted(d.log) /\ run'[h] = Begun(d)
    BY <1>7 DEF Begins, Delivery
  <2>2. run'[h].op = d.log.kind /\ d.log.kind \in {"trade", "resolve", "redeem"}
    <3> DEFINE s == run'[h]
    <3> HIDE DEF s
    <3>1. s.op = d.log.kind
      BY <1>1, <2>1, BegunFields DEF s
    <3> QED BY <1>1, <2>1, <3>1, EventTypes DEF s
  <2> QED BY <1>2, <2>2
<1>8. CASE Requests(h)
  <2>1. run'[h].work = {"check"}
    BY <1>1, <1>8, SeenFields DEF Requests
  <2> QED BY <1>2, <2>1
<1> QED BY <1>4, <1>5, <1>6, <1>7, <1>8, RunChanges

(* Who is marked has redeemed, or has no balance of the winning outcome, or  *)
(* the request found tokens that nobody had judged.                        *)
LEMMA MarkedHasNoClaim ==
    ASSUME TypeInv, JudgedInv, ClaimInv, [Next]_vars, NEW p \in parts', p \notin parts, p.monetized
    PROVE  \/ Balance(EventOf(p).trader, winner) = 0
           \/ \E h \in Handlers : /\ run[h].op = "seen" /\ run[h].who = EventOf(p).trader
                                  /\ run[h].tokens[winner].trueness = "null"
<1>1. TypeOK /\ winner \in Outcomes /\ \A h \in Handlers : run[h] \in Run /\ RunFits(run[h])
  BY DEF TypeInv, TypeOK
<1>2. ASSUME NEW h \in Handlers, InsertParticipation(h)
      PROVE  FALSE
  <2>1. parts' = parts \/ parts' = parts \union {[of |-> run[h].on, monetized |-> FALSE]}
    BY <1>2 DEF InsertParticipation
  <2>2. p = [of |-> run[h].on, monetized |-> FALSE]
    BY <2>1
  <2> QED BY <2>2
<1>3. PICK h \in Handlers : Monetize(h)
  <2>1. parts' = parts \/ \E h \in Handlers : InsertParticipation(h) \/ Monetize(h)
    BY DEF Next, Chain, Trades, RedeemsOnChain, ContractCloses, RowCloses, Reports, Deliver, LoadFails,
           SeesResult, Proceeds, SelectTokens, UpdateTokens, SaveMarket, InsertHistory, Check,
           LogTransaction, QueryFails, StartsOver, dbVars, vars
  <2> QED BY <1>2, <2>1
<1>4. EventOf(p).trader = run[h].who
  <2>1. PICK q \in parts : p = IF EventOf(q).trader = run[h].who
                               THEN [q EXCEPT !.monetized = TRUE] ELSE q
    BY <1>3 DEF Monetize
  <2>2. EventOf(q).trader = run[h].who /\ p = [q EXCEPT !.monetized = TRUE]
    BY <2>1
  <2>3. p.of = q.of
    BY <1>1, <2>2 DEF TypeOK
  <2> QED BY <2>2, <2>3 DEF EventOf
<1>5. run[h].op \in {"redeem", "seen"} /\ run[h].who \in Traders /\ "monetize" \in run[h].work
  BY <1>1, <1>3 DEF Monetize, RunFits, WorkOf, Run
<1>6. CASE run[h].op = "redeem"
  <2>1. run[h].on.log.no \in DOMAIN redeems /\ redeems[run[h].on.log.no].redeemer = run[h].who
    BY <1>1, <1>6, RunEvents DEF RunFits
  <2> QED BY <1>4, <2>1 DEF Balance
<1>7. CASE run[h].op = "seen"
  <2>1. Balance(run[h].who, winner) = 0 \/ run[h].tokens[winner].trueness = "null"
    BY <1>1, <1>5, <1>7 DEF ClaimInv, RunClaims
  <2> QED BY <1>4, <1>7, <2>1
<1> QED BY <1>5, <1>6, <1>7

(* The mark is only set for users with nothing to claim, or by a request    *)
(* that found the market resolved and its tokens not judged yet.            *)
THEOREM MarkedHaveNoClaim == Spec => MonetizedHasNoClaim
<1>1. Init => ClaimInv
  BY IdleFields DEF Init, ClaimInv, RunClaims
<1>2. Init => JudgedInv
  BY IdleFields DEF Init, JudgedInv, Uniform, NoneJudged, AllOrNone, NewTokens
<1>3. TypeInv /\ JudgedInv /\ ClaimInv /\ [Next]_vars =>
        [\A p \in parts' \ parts : p.monetized =>
           \/ Balance(EventOf(p).trader, winner) = 0
           \/ \E h \in Handlers : /\ run[h].op = "seen" /\ run[h].who = EventOf(p).trader
                                  /\ run[h].tokens[winner].trueness = "null"]_vars
  BY MarkedHasNoClaim
<1> QED BY <1>1, <1>2, <1>3, JudgedNext, ClaimNext, LedgerInvariant, PTL DEF Spec, MonetizedHasNoClaim

-----------------------------------------------------------------------------
(* The amounts invested                                                    *)

(* An amount that some deliveries of trades of an outcome add up to.        *)
Backed(n, o) == \E S \in SUBSET DeliveredOf(o) : IsFiniteSet(S) /\ n = SumOfDeliveries(S)

(* The rows have such amounts, and so do the copies that were made of them. *)
BackedInv ==
    /\ \A o \in Outcomes : Backed(tokens[o].invested, o)
    /\ \A h \in Handlers, o \in Outcomes : Backed(run[h].tokens[o].invested, o)

(* The trade of a delivery.                                                 *)
LEMMA TradeOfDelivery ==
    ASSUME TypeInv, NEW o, NEW d \in DeliveredOf(o)
    PROVE  /\ d \in Delivery /\ d.log \in Log /\ Emitted(d.log)
           /\ d.log.no \in DOMAIN trades /\ trades[d.log.no] \in TradeEvent
           /\ trades[d.log.no].amount \in Int /\ d.nth <= delivered[d.log]
<1>1. d \in Delivery /\ d.log.kind = "trade" /\ d.nth <= delivered[d.log]
  BY DEF DeliveredOf
<1>2. d.log \in Log /\ d.nth \in 1 .. 2
  BY <1>1 DEF Delivery
<1>3. TypeOK /\ ChainFits /\ delivered \in [Log -> 0 .. 2]
  BY DEF TypeInv, TypeOK
<1>4. Emitted(d.log)
  BY <1>1, <1>2, <1>3 DEF ChainFits
<1>5. d.log.no \in DOMAIN trades /\ trades[d.log.no] \in TradeEvent
  BY <1>1, <1>2, <1>3, <1>4, EventTypes
<1>6. trades[d.log.no].amount \in Int
  BY <1>5, AmountTypes DEF TradeEvent
<1> QED BY <1>1, <1>2, <1>4, <1>5, <1>6

(* What the deliveries of some trades add up to does not change.            *)
LEMMA DeliveriesStay ==
    ASSUME TypeInv, [Next]_vars, NEW o, NEW S \in SUBSET DeliveredOf(o), IsFiniteSet(S)
    PROVE  S \in SUBSET DeliveredOf(o)' /\ SumOfDeliveries(S)' = SumOfDeliveries(S)
<1>1. ASSUME NEW d \in S
      PROVE  /\ d \in DeliveredOf(o)' /\ trades[d.log.no].amount \in Int
             /\ trades'[d.log.no] = trades[d.log.no]
  <2>1. /\ d \in Delivery /\ d.log \in Log /\ d.log.no \in DOMAIN trades
        /\ trades[d.log.no].amount \in Int /\ d.nth <= delivered[d.log]
    BY TradeOfDelivery
  <2>2. trades'[d.log.no] = trades[d.log.no]
    BY <2>1, StateGrows
  <2>3. d.nth <= delivered'[d.log]
    <3>1. delivered \in [Log -> 0 .. 2] /\ delivered' \in [Log -> 0 .. 2]
      BY StateGrows DEF TypeInv, TypeOK
    <3>2. delivered[d.log] <= delivered'[d.log] /\ d.nth \in Nat
      BY <2>1, StateGrows DEF Delivery
    <3> QED BY <2>1, <3>1, <3>2
  <2> QED BY <2>1, <2>2, <2>3 DEF DeliveredOf
<1> DEFINE f == [d \in S |-> trades[d.log.no].amount]
           g == [d \in S |-> trades'[d.log.no].amount]
<1>2. \A d \in S : f[d] \in Int /\ g[d] = f[d]
  BY <1>1
<1>3. SumOfDeliveries(S) = SumFunctionOnSet(f, S) /\ SumOfDeliveries(S)' = SumFunctionOnSet(g, S)
  BY DEF SumOfDeliveries
<1> HIDE DEF f, g
<1>4. SumFunctionOnSet(g, S) = SumFunctionOnSet(f, S)
  BY <1>2, SumSame
<1> QED BY <1>1, <1>3, <1>4

(* An amount stays backed by the deliveries it was the sum of.              *)
LEMMA BackedStays ==
    ASSUME TypeInv, [Next]_vars, NEW n, NEW o, Backed(n, o)
    PROVE  Backed(n, o)'
<1>1. PICK S \in SUBSET DeliveredOf(o) : IsFiniteSet(S) /\ n = SumOfDeliveries(S)
  BY DEF Backed
<1>2. S \in SUBSET DeliveredOf(o)' /\ SumOfDeliveries(S)' = SumOfDeliveries(S)
  BY <1>1, DeliveriesStay
<1> QED BY <1>1, <1>2 DEF Backed

(* The amount of a trade that is delivered now was not added before.        *)
LEMMA DeliveryAdds ==
    ASSUME TypeInv, [Next]_vars, NEW d \in Delivery, d.log.kind = "trade", Emitted(d.log),
           d.nth = delivered[d.log] + 1, delivered'[d.log] = d.nth,
           NEW e, e = trades[d.log.no], NEW o, o = e.outcome,
           NEW S \in SUBSET DeliveredOf(o), IsFiniteSet(S), NEW n, n = SumOfDeliveries(S)
    PROVE  /\ e.amount \in Int
           /\ S \union {d} \in SUBSET DeliveredOf(o)' /\ IsFiniteSet(S \union {d})
           /\ SumOfDeliveries(S \union {d})' = n + e.amount
<1>1. e.amount \in Int
  BY EventTypes, AmountTypes DEF TradeEvent, TypeInv, Delivery
<1>2. S \in SUBSET DeliveredOf(o)' /\ SumOfDeliveries(S)' = SumOfDeliveries(S)
  BY DeliveriesStay
<1>3. d.log \in Log /\ delivered \in [Log -> 0 .. 2] /\ TypeOK
  BY DEF Delivery, TypeInv, TypeOK
<1>4. d \notin S
  <2>1. ASSUME d \in S
        PROVE  d.nth <= delivered[d.log]
    BY <2>1, TradeOfDelivery
  <2> QED BY <1>3, <2>1
<1>5. d.log.no \in DOMAIN trades /\ e \in TradeEvent /\ trades'[d.log.no] = e
  BY <1>3, EventTypes, StateGrows
<1>6. d \in DeliveredOf(o)'
  <2>1. delivered'[d.log] \in Nat
    BY <1>3
  <2> QED BY <1>5, <2>1 DEF DeliveredOf
<1> DEFINE T == S \union {d}
           f == [x \in S |-> trades'[x.log.no].amount]
           g == [x \in T |-> trades'[x.log.no].amount]
<1>7. \A x \in T : g[x] \in Int
  <2>1. e.amount \in Int
    BY <1>5, AmountTypes DEF TradeEvent
  <2>2. \A x \in S : trades'[x.log.no].amount \in Int
    <3> TAKE x \in S
    <3>1. x.log.no \in DOMAIN trades /\ trades[x.log.no].amount \in Int
      BY TradeOfDelivery
    <3> QED BY <3>1, StateGrows
  <2> QED BY <1>5, <2>1, <2>2
<1>8. /\ \A x \in S : f[x] = g[x]
      /\ g[d] = e.amount
  BY <1>5
<1>9. SumOfDeliveries(S)' = SumFunctionOnSet(f, S) /\ SumOfDeliveries(T)' = SumFunctionOnSet(g, T)
  BY DEF SumOfDeliveries
<1>10. T \in SUBSET DeliveredOf(o)' /\ IsFiniteSet(T)
  BY <1>2, <1>6, FS_AddElement
<1> HIDE DEF f, g
<1>11. SumFunctionOnSet(g, T) = SumFunctionOnSet(g, S) + g[d]
  BY <1>4, <1>7, SumAdds
<1>12. SumFunctionOnSet(f, S) = SumFunctionOnSet(g, S)
  BY <1>7, <1>8, SumSame
<1> HIDE DEF T
<1>13. SumOfDeliveries(T)' = n + e.amount
  BY <1>2, <1>8, <1>9, <1>11, <1>12
<1> QED BY <1>1, <1>10, <1>13 DEF T

(* So the amounts stay backed by deliveries.                                *)
LEMMA BackedAdds ==
    ASSUME TypeInv, [Next]_vars, NEW n, NEW d \in Delivery, d.log.kind = "trade", Emitted(d.log),
           d.nth = delivered[d.log] + 1, delivered'[d.log] = d.nth,
           NEW e, e = trades[d.log.no], NEW o, o = e.outcome, Backed(n, o)
    PROVE  Backed(n + e.amount, o)'
<1>1. PICK S \in SUBSET DeliveredOf(o) : IsFiniteSet(S) /\ n = SumOfDeliveries(S)
  BY DEF Backed
<1>2. /\ S \union {d} \in SUBSET DeliveredOf(o)' /\ IsFiniteSet(S \union {d})
      /\ SumOfDeliveries(S \union {d})' = n + e.amount
  BY <1>1, DeliveryAdds
<1> QED BY <1>2 DEF Backed

(* Zero is the sum of no deliveries.                                        *)
LEMMA BackedNothing == ASSUME NEW o PROVE Backed(0, o) /\ Backed(0, o)'
<1>1. SumOfDeliveries({}) = 0 /\ SumOfDeliveries({})' = 0
  BY SumOfNothing DEF SumOfDeliveries
<1> QED BY <1>1, FS_EmptySet DEF Backed

(* Each step keeps the amounts backed.                                      *)
LEMMA BackedNext == TypeInv /\ BackedInv /\ [Next]_vars => BackedInv'
<1> SUFFICES ASSUME TypeInv, BackedInv, [Next]_vars, NEW o \in Outcomes
             PROVE  /\ Backed(tokens[o].invested, o)'
                    /\ \A h \in Handlers : Backed(run[h].tokens[o].invested, o)'
  BY DEF BackedInv
<1>1. /\ TypeOK /\ tokens \in [Outcomes -> Token] /\ delivered \in [Log -> 0 .. 2]
      /\ \A h \in Handlers : run[h] \in Run
  BY DEF TypeInv, TypeOK
<1>2. PICK n : n = tokens[o].invested
  OBVIOUS
<1>3. Backed(n, o) /\ Backed(n, o)'
  BY <1>2, BackedStays DEF BackedInv
<1>4. ASSUME NEW h \in Handlers, NEW m, m = run[h].tokens[o].invested
      PROVE  Backed(m, o)'
  BY <1>4, BackedStays DEF BackedInv
<1>5. NewTokens[o].invested = 0
  BY DEF NewTokens
<1>6. Backed(tokens[o].invested, o)'
  <2>1. ASSUME NEW h \in Handlers, UpdateTokens(h)
        PROVE  Backed(tokens[o].invested, o)'
    <3>1. tokens'[o].invested = n \/ tokens'[o].invested = run[h].tokens[o].invested
      BY <1>1, <1>2, <2>1, PatchedTokenFields DEF UpdateTokens
    <3> QED BY <1>3, <1>4, <3>1 DEF Backed
  <2>2. CASE tokens' = tokens
    BY <1>2, <1>3, <2>2 DEF Backed
  <2>3. tokens' = tokens \/ \E h \in Handlers : UpdateTokens(h)
    BY DEF Next, Chain, Trades, RedeemsOnChain, ContractCloses, RowCloses, Reports, Deliver, LoadFails,
           SeesResult, Proceeds, SelectTokens, SaveMarket, InsertParticipation, InsertHistory,
           Monetize, Check, LogTransaction, QueryFails, StartsOver, dbVars, vars
  <2> QED BY <2>1, <2>2, <2>3
<1>7. ASSUME NEW h \in Handlers
      PROVE  Backed(run[h].tokens[o].invested, o)'
  <2>1. SUFFICES \E m : m = run'[h].tokens[o].invested /\ Backed(m, o)'
    BY DEF Backed
  <2>2. CASE run'[h] = run[h]
    BY <1>4, <2>2
  <2>3. CASE run'[h] = Idle
    BY <1>5, <2>3, IdleFields, BackedNothing
  <2>4. CASE GoesOn(run[h], run'[h])
    BY <1>4, <1>5, <2>4, BackedNothing DEF GoesOn
  <2>5. ASSUME NEW d \in Delivery, Begins(h, d)
        PROVE  \E m : m = run'[h].tokens[o].invested /\ Backed(m, o)'
    <3>1. /\ d.log \in Log /\ Emitted(d.log) /\ run'[h] = Begun(d)
          /\ d.nth = delivered[d.log] + 1 /\ delivered'[d.log] = d.nth
      BY <1>1, <2>5 DEF Begins, Delivery
    <3> DEFINE r == run'[h]
    <3> HIDE DEF r
    <3>2. /\ r.op = d.log.kind
          /\ r.op = "trade" => r.tokens = Added(trades[d.log.no])
          /\ r.op = "resolve" => r.tokens = Judged
          /\ r.op = "redeem" => r.tokens = NewTokens
      BY <1>1, <3>1, BegunFields DEF r
    <3>3. CASE r.op = "trade"
      <4>1. PICK e : e = trades[d.log.no]
        OBVIOUS
      <4>2. e \in TradeEvent
        BY <1>1, <3>1, <3>2, <3>3, <4>1, EventTypes
      <4>3. r.tokens[o].invested = IF o = e.outcome THEN n + e.amount ELSE n
        <5>1. tokens[o] \in Token /\ e.outcome \in Outcomes
          BY <1>1, <4>2 DEF TradeEvent
        <5>2. Added(e)[o] = IF o = e.outcome THEN [tokens[o] EXCEPT !.invested = @ + e.amount]
                            ELSE tokens[o]
          BY <1>1, <5>1 DEF Added
        <5>3. [tokens[o] EXCEPT !.invested = @ + e.amount].invested = tokens[o].invested + e.amount
          BY <5>1 DEF Token
        <5> QED BY <1>2, <3>2, <3>3, <4>1, <5>2, <5>3
      <4>4. o = e.outcome => Backed(n + e.amount, o)'
        BY <1>3, <3>1, <3>2, <3>3, <4>1, BackedAdds
      <4> QED BY <1>3, <4>3, <4>4 DEF r
    <3>4. CASE r.op = "resolve"
      <4>1. r.tokens[o].invested = n
        BY <1>1, <1>2, <3>2, <3>4 DEF Judged, Token
      <4> QED BY <1>3, <4>1 DEF r
    <3>5. CASE r.op = "redeem"
      BY <1>5, <3>2, <3>5, BackedNothing DEF r
    <3> QED BY <1>1, <3>1, <3>2, <3>3, <3>4, <3>5, EventTypes
  <2>6. CASE Requests(h)
    <3>1. run'[h].tokens = tokens
      BY <1>1, <2>6, SeenFields DEF Requests
    <3> QED BY <1>2, <1>3, <3>1
  <2> QED BY <2>2, <2>3, <2>4, <2>5, <2>6, RunChanges
<1> QED BY <1>6, <1>7

(* amount_invested never holds an amount nobody traded, whatever handlers    *)
(* overlap, fail or are repeated.                                          *)
THEOREM NothingIsInvented == Spec => []NothingInvented
<1>1. Init => BackedInv
  BY IdleFields, BackedNothing DEF Init, BackedInv, NewTokens
<1>2. BackedInv => NothingInvented
  BY DEF BackedInv, Backed, NothingInvented
<1> QED BY <1>1, <1>2, BackedNext, LedgerInvariant, PTL DEF Spec

-----------------------------------------------------------------------------
(* The sum of what was handled                                             *)

HandledSum(o) == SumOfDeliveries(HandledOf(o))

(* The handled deliveries of the trades of an outcome are finitely many.     *)
LEMMA HandledSumType ==
    ASSUME TypeInv, NEW o
    PROVE  IsFiniteSet(HandledOf(o)) /\ HandledSum(o) \in Int
<1> DEFINE D == (1 .. MaxTrades) \X (1 .. 2)
           name(x) == [log |-> [kind |-> "trade", no |-> x[1]], nth |-> x[2]]
           f == [x \in D |-> name(x)]
           I == {name(x) : x \in D}
<1>1. IsFiniteSet(1 .. MaxTrades) /\ IsFiniteSet(1 .. 2)
  <2>1. 1 \in Int /\ 2 \in Int /\ MaxTrades \in Int
    BY LedgerBounds
  <2> QED BY <2>1, FS_Interval
<1>2. IsFiniteSet(D)
  BY <1>1, FS_Product
<1>3. f \in Surjection(D, I)
  <2> HIDE DEF D, name
  <2>1. f \in [D -> I]
    OBVIOUS
  <2> QED BY <2>1 DEF Surjection
<1> HIDE DEF f
<1>4. IsFiniteSet(I)
  BY <1>2, <1>3, FS_Surjection
<1>5. HandledOf(o) \subseteq I
  <2> SUFFICES ASSUME NEW d \in HandledOf(o) PROVE d \in I
    OBVIOUS
  <2>1. d \in Delivery /\ d.log.kind = "trade"
    BY DEF HandledOf, DeliveredOf
  <2>2. d.log \in [kind : {"trade"}, no : 1 .. MaxTrades] /\ d.nth \in 1 .. 2
    BY <2>1 DEF Delivery, Log
  <2>3. d = [log |-> [kind |-> "trade", no |-> d.log.no], nth |-> d.nth]
    BY <2>1, <2>2 DEF Delivery
  <2>4. <<d.log.no, d.nth>> \in D /\ d = name(<<d.log.no, d.nth>>)
    BY <2>2, <2>3
  <2> QED BY <2>4
<1>6. IsFiniteSet(HandledOf(o))
  <2> HIDE DEF I
  <2> QED BY <1>4, <1>5, FS_Subset
<1> DEFINE g == [d \in HandledOf(o) |-> trades[d.log.no].amount]
<1>7. \A d \in HandledOf(o) : g[d] \in Int
  BY TradeOfDelivery DEF HandledOf
<1> HIDE DEF g
<1>8. SumFunctionOnSet(g, HandledOf(o)) \in Int
  BY <1>6, <1>7, SumType
<1> QED BY <1>6, <1>8 DEF HandledSum, SumOfDeliveries, g

SumsOfInts == \A o \in Outcomes : HandledSum(o) \in Int
(* So they do for every outcome.                                            *)
LEMMA SumsAreInts == TypeInv => SumsOfInts
  BY HandledSumType DEF SumsOfInts

(* A trade that was delivered is what it was.                               *)
LEMMA DeliveredStay ==
    ASSUME TypeInv, [Next]_vars, NEW d \in Delivery, d.log.kind = "trade", d.nth <= delivered[d.log]
    PROVE  trades'[d.log.no] = trades[d.log.no]
<1>1. d \in DeliveredOf(trades[d.log.no].outcome)
  BY DEF DeliveredOf
<1>2. d.log.no \in DOMAIN trades
  BY <1>1, TradeOfDelivery
<1> QED BY <1>2, StateGrows

(* Where the same deliveries were handled the sum is the same.              *)
LEMMA HandledStays ==
    ASSUME TypeInv, [Next]_vars, NEW o, HandledOf(o)' = HandledOf(o)
    PROVE  HandledSum(o)' = HandledSum(o)
<1>1. PICK S : S = HandledOf(o)
  OBVIOUS
<1>2. IsFiniteSet(S) /\ S \in SUBSET DeliveredOf(o)
  BY <1>1, HandledSumType DEF HandledOf
<1>3. SumOfDeliveries(S)' = SumOfDeliveries(S)
  BY <1>2, DeliveriesStay
<1>4. HandledSum(o)' = SumOfDeliveries(S)'
  BY <1>1 DEF HandledSum, SumOfDeliveries
<1> QED BY <1>1, <1>3, <1>4 DEF HandledSum

(* Steps that deliver nothing.                                              *)
LEMMA HandledSame ==
    ASSUME TypeInv, [Next]_vars, delivered' = delivered, ignored' = ignored, NEW o
    PROVE  HandledSum(o)' = HandledSum(o)
<1>1. DeliveredOf(o)' = DeliveredOf(o)
  BY DeliveredStay DEF DeliveredOf
<1>2. HandledOf(o)' = HandledOf(o)
  BY <1>1 DEF HandledOf
<1> QED BY <1>2, HandledStays

(* What a delivery adds to the sum: the amount of a trade that is not        *)
(* dropped, and nothing else.                                              *)
LEMMA HandledAdds ==
    ASSUME TypeInv, [Next]_vars, trades' = trades, NEW l \in Log, Emitted(l),
           NEW d \in Delivery, d.log = l, d.nth = delivered[l] + 1,
           delivered' = [delivered EXCEPT ![l] = @ + 1],
           ignored' = ignored \/ ignored' = ignored \union {d}, NEW o
    PROVE  HandledSum(o)' =
             IF ignored' = ignored /\ l.kind = "trade" /\ trades[l.no].outcome = o
             THEN HandledSum(o) + trades[l.no].amount ELSE HandledSum(o)
<1> DEFINE counts == l.kind = "trade" /\ trades[l.no].outcome = o
<1>1. delivered \in [Log -> 0 .. 2] /\ delivered'[l] = d.nth /\ d.nth \in Nat
      /\ \A x \in Delivery : x.log \in Log /\ x.nth \in Nat
  BY DEF TypeInv, TypeOK, Delivery
<1>2. d \notin ignored /\ d \notin DeliveredOf(o)
  <2>1. ~(d.nth <= delivered[l])
    BY <1>1
  <2> QED BY <2>1 DEF TypeInv, ChainFits, DeliveredOf
<1>3. \A x \in Delivery : x.nth <= delivered'[x.log] <=> x.nth <= delivered[x.log] \/ x = d
  <2> TAKE x \in Delivery
  <2>1. CASE x.log # l
    BY <1>1, <2>1
  <2>2. CASE x.log = l
    <3>1. x.nth <= delivered'[l] <=> x.nth <= delivered[l] \/ x.nth = d.nth
      BY <1>1
    <3>2. x.nth = d.nth <=> x = d
      BY <2>2 DEF Delivery
    <3> QED BY <2>2, <3>1, <3>2
  <2> QED BY <2>1, <2>2
<1>4. DeliveredOf(o)' = IF counts THEN DeliveredOf(o) \union {d} ELSE DeliveredOf(o)
  BY <1>3 DEF DeliveredOf
<1>5. CASE ignored' = ignored /\ counts
  <2>1. PICK S : S = HandledOf(o)
    OBVIOUS
  <2>2. IsFiniteSet(S) /\ S \in SUBSET DeliveredOf(o)
    BY <2>1, HandledSumType DEF HandledOf
  <2>3. HandledOf(o)' = S \union {d}
    BY <1>2, <1>4, <1>5, <2>1 DEF HandledOf
  <2>4. PICK e : e = trades[d.log.no]
    OBVIOUS
  <2>5. PICK n : n = SumOfDeliveries(S)
    OBVIOUS
  <2>6. o = e.outcome /\ d.log.kind = "trade"
    BY <1>5, <2>4
  <2>7. SumOfDeliveries(S \union {d})' = n + e.amount
    BY <1>1, <2>2, <2>4, <2>5, <2>6, DeliveryAdds
  <2>8. HandledSum(o)' = SumOfDeliveries(S \union {d})'
    BY <2>3 DEF HandledSum, SumOfDeliveries
  <2> QED BY <1>5, <2>1, <2>4, <2>5, <2>7, <2>8 DEF HandledSum
<1>6. CASE ~(ignored' = ignored /\ counts)
  <2>1. HandledOf(o)' = HandledOf(o)
    <3>1. CASE ignored' = ignored
      BY <1>4, <1>6, <3>1 DEF HandledOf
    <3>2. CASE ignored' = ignored \union {d}
      BY <1>2, <1>4, <3>2 DEF HandledOf
    <3> QED BY <3>1, <3>2
  <2> QED BY <1>6, <2>1, HandledStays
<1> QED BY <1>5, <1>6

(* What the trade that a run handles adds to an outcome.                    *)
Due(r, o) ==
    IF r.op = "trade" /\ trades[r.on.log.no].outcome = o THEN trades[r.on.log.no].amount ELSE 0

(* The queries of a run after one of them.                                  *)
LEMMA AfterWork ==
    ASSUME NEW r \in Run, NEW w \in r.work, NEW s, s = After(r, w)
    PROVE  /\ w \notin s.work
           /\ \A v : v # "tx" /\ v # w => (v \in s.work <=> v \in r.work)
           /\ \A v \in s.work : Continues(r, s)
           /\ s.failed => r.failed
<1> DEFINE rest == [r EXCEPT !.work = @ \ {w}]
<1>1. rest \in Run /\ Continues(r, rest) /\ rest.work = r.work \ {w}
  BY DEF Run, Continues
<1>2. CASE rest.work # {}
  BY <1>1, <1>2 DEF After, Continues
<1>3. CASE s = Idle /\ rest.work = {}
  BY <1>1, <1>3, IdleFields
<1>4. CASE s = [rest EXCEPT !.work = {"tx"}] /\ rest.work = {} /\ w # "tx"
  <2> HIDE DEF rest
  <2>1. Continues(rest, s) /\ s.work = {"tx"}
    BY <1>1, <1>4 DEF Run, Continues
  <2> QED BY <1>1, <1>4, <2>1 DEF Continues
<1> QED BY <1>2, <1>3, <1>4 DEF After

(* What a run is still to add to the rows.                                  *)
TokensDue(r) == "selectTokens" \in r.work \/ "updateTokens" \in r.work
ToTokens(r, o) == IF TokensDue(r) THEN Due(r, o) ELSE 0

(* With what it is still to add the rows hold the sum, its copy holds the    *)
(* row with its amount added, and its UPDATE writes the amount if it must.  *)
RunBalances(r) ==
    /\ ~("selectTokens" \in r.work /\ "updateTokens" \in r.work)
    /\ \A o \in Outcomes :
         /\ tokens[o].invested + ToTokens(r, o) = HandledSum(o)
         /\ TokensDue(r) => r.tokens[o].invested = tokens[o].invested + Due(r, o)
         /\ "updateTokens" \in r.work =>
              (<<o, "invested">> \in r.diff <=> r.tokens[o].invested # tokens[o].invested)

SumInv ==
    ~overlapped /\ faults = 0 =>
        /\ \A g, h \in Handlers : HoldsTokens(g) /\ HoldsTokens(h) => g = h
        /\ \A h \in Handlers : HoldsTokens(h) => RunBalances(run[h])
        /\ (\A h \in Handlers : ~HoldsTokens(h)) =>
              \A o \in Outcomes : tokens[o].invested = HandledSum(o)

(* The integers that are added.                                             *)
LEMMA DueType ==
    ASSUME TypeInv, NEW h \in Handlers, NEW o
    PROVE  Due(run[h], o) \in Int
<1>1. run[h].op = "trade" => trades[run[h].on.log.no] \in TradeEvent
  BY RunEvents
<1>2. run[h].op = "trade" => trades[run[h].on.log.no].amount \in Int
  BY <1>1, AmountTypes DEF TradeEvent
<1> QED BY <1>2 DEF Due

(* A run that holds the rows ends one of its queries: s is what it becomes. *)
LEMMA HolderBalances ==
    ASSUME TypeInv, NEW h \in Handlers, HoldsTokens(h), RunBalances(run[h]), Proceeds(h),
           NEW s, s = run'[h]
    PROVE  /\ s.op \in {run[h].op, "none"}
           /\ RunBalances(s)'
<1> DEFINE r == run[h]
<1>0. /\ r \in Run /\ RunFits(r) /\ r.op \in {"trade", "resolve"} /\ TypeOK
      /\ tokens \in [Outcomes -> Token] /\ r.tokens \in [Outcomes -> Token]
      /\ r.work \subseteq {"selectTokens", "updateTokens", "saveMarket", "parts", "tx"}
  BY DEF TypeInv, TypeOK, HoldsTokens, RunFits, WorkOf, Run
<1>1. /\ [Next]_vars /\ s \in Run /\ (s = Idle \/ GoesOn(r, s))
  <2>1. [Next]_vars
    BY DEF Next
  <2>2. PICK x \in Run : run' = [run EXCEPT ![h] = x] /\ (x = Idle \/ GoesOn(run[h], x))
    BY QueryGoesOn
  <2> QED BY <2>1, <2>2 DEF TypeInv, TypeOK
<1>2. s.op \in {r.op, "none"}
  BY <1>1, IdleFields DEF GoesOn
<1>3. ASSUME NEW o \in Outcomes
      PROVE  /\ tokens[o].invested \in Int /\ HandledSum(o) \in Int /\ Due(r, o) \in Int
             /\ ToTokens(r, o) \in Int
             /\ tokens[o].invested + ToTokens(r, o) = HandledSum(o)
             /\ TokensDue(r) => r.tokens[o].invested = tokens[o].invested + Due(r, o)
             /\ "updateTokens" \in r.work =>
                  (<<o, "invested">> \in r.diff <=> r.tokens[o].invested # tokens[o].invested)
  <2>1. tokens[o].invested \in Int /\ HandledSum(o) \in Int /\ Due(r, o) \in Int
    BY <1>0, DueType, HandledSumType DEF Token
  <2>2. ToTokens(r, o) \in Int
    BY <2>1 DEF ToTokens
  <2> QED BY <2>1, <2>2 DEF RunBalances
<1>4. UNCHANGED <<trades, delivered, ignored>>
  BY DEF Proceeds, SelectTokens, UpdateTokens, SaveMarket, InsertParticipation, InsertHistory,
         Monetize, Check, LogTransaction, chainVars
<1>13. \A o \in Outcomes : HandledSum(o)' = HandledSum(o)
  BY <1>1, <1>4, HandledSame
(* The run after a query w.                                                 *)
<1>5. ASSUME NEW q \in Run, NEW w \in q.work, s = After(q, w),
             q.op = r.op, q.on = r.on, q.work = r.work
      PROVE  /\ w \notin s.work
             /\ \A v : v # "tx" /\ v # w => (v \in s.work <=> v \in r.work)
             /\ \A v \in s.work : s.tokens = q.tokens /\ s.diff = q.diff
             /\ \A v \in s.work, o \in Outcomes : Due(s, o)' = Due(r, o)
  <2>1. /\ w \notin s.work
        /\ \A v : v # "tx" /\ v # w => (v \in s.work <=> v \in q.work)
        /\ \A v \in s.work : Continues(q, s)
    BY <1>5, AfterWork
  <2> HIDE DEF r
  <2>2. ASSUME NEW v \in s.work, NEW o \in Outcomes
        PROVE  Due(s, o)' = Due(r, o)
    BY <1>4, <1>5, <2>1 DEF Due, Continues
  <2> QED BY <1>5, <2>1, <2>2 DEF Continues
(* Other queries than those for the tokens.                                 *)
<1>6. ASSUME NEW q \in Run, NEW w \in q.work, s = After(q, w), w \in {"saveMarket", "parts", "tx"},
             q.op = r.op, q.on = r.on, q.work = r.work, q.tokens = r.tokens, q.diff = r.diff,
             tokens' = tokens
      PROVE  RunBalances(s)'
  <2>1. /\ \A v \in {"selectTokens", "updateTokens"} : v \in s.work <=> v \in r.work
        /\ \A v \in s.work : s.tokens = r.tokens /\ s.diff = r.diff
        /\ \A v \in s.work, o \in Outcomes : Due(s, o)' = Due(r, o)
    <3> HIDE DEF r
    <3> QED BY <1>5, <1>6
  <2> HIDE DEF r
  <2>3. ASSUME NEW o \in Outcomes
        PROVE  ToTokens(s, o)' = ToTokens(r, o)
    BY <2>1 DEF ToTokens, TokensDue
  <2> QED BY <1>3, <1>6, <1>13, <2>1, <2>3 DEF RunBalances, TokensDue, r
<1>7. CASE SaveMarket(h)
  <2> DEFINE q == [r EXCEPT !.market = NewMarket]
  <2>1. q \in Run /\ q.work = r.work /\ q.op = r.op /\ q.on = r.on /\ q.tokens = r.tokens /\ q.diff = r.diff
    BY <1>0, IdleFields DEF Run
  <2>2. s = After(q, "saveMarket") /\ "saveMarket" \in r.work /\ tokens' = tokens
    BY <1>7 DEF SaveMarket, TypeInv, TypeOK
  <2> HIDE DEF q
  <2> QED BY <1>2, <1>6, <2>1, <2>2
<1>8. CASE LogTransaction(h)
  <2>1. s = After(r, "tx") /\ "tx" \in r.work /\ tokens' = tokens
    BY <1>8 DEF LogTransaction, Ends, TypeInv, TypeOK
  <2> QED BY <1>0, <1>2, <1>6, <2>1
<1>9. CASE InsertHistory(h) \/ Monetize(h) \/ Check(h)
  BY <1>0, <1>9 DEF InsertHistory, Monetize, Check
<1>10. CASE InsertParticipation(h)
  <2>1. "parts" \in r.work /\ tokens' = tokens
    BY <1>10 DEF InsertParticipation
  <2>2. CASE Ends(h, "parts")
    <3>1. s = After(r, "parts")
      BY <2>2 DEF Ends, TypeInv, TypeOK
    <3> QED BY <1>0, <1>2, <1>6, <2>1, <3>1
  <2>3. CASE Throws(h, "parts")
    <3> DEFINE q == [r EXCEPT !.failed = TRUE]
    <3>1. q \in Run /\ q.work = r.work /\ q.op = r.op /\ q.on = r.on /\ q.tokens = r.tokens /\ q.diff = r.diff
      BY <1>0 DEF Run
    <3>2. s = After(q, "parts")
      BY <2>3 DEF Throws, TypeInv, TypeOK
    <3> HIDE DEF q
    <3> QED BY <1>2, <1>6, <2>1, <3>1, <3>2
  <2> QED BY <1>10, <2>2, <2>3 DEF InsertParticipation
<1>11. CASE UpdateTokens(h)
  <2> DEFINE q == [r EXCEPT !.tokens = NewTokens, !.diff = {}]
  <2>1. q \in Run /\ q.work = r.work /\ q.op = r.op /\ q.on = r.on
    BY <1>0, IdleFields DEF Run
  <2>2. s = After(q, "updateTokens") /\ "updateTokens" \in r.work
    BY <1>11 DEF UpdateTokens, TypeInv, TypeOK
  <2>3. \A o \in Outcomes : tokens'[o].invested = tokens[o].invested + Due(r, o)
    <3> TAKE o \in Outcomes
    <3>1. tokens'[o].invested = IF <<o, "invested">> \in r.diff THEN r.tokens[o].invested
                                ELSE tokens[o].invested
      BY <1>0, <1>11, PatchedTokenFields DEF UpdateTokens
    <3> QED BY <1>3, <2>2, <3>1 DEF TokensDue
  <2> HIDE DEF q
  <2>4. /\ "updateTokens" \notin s.work /\ "selectTokens" \notin s.work
        /\ \A v \in s.work, o \in Outcomes : Due(s, o)' = Due(r, o)
    BY <1>5, <2>1, <2>2 DEF RunBalances
  <2> HIDE DEF r
  <2>6. ASSUME NEW o \in Outcomes
        PROVE  ToTokens(s, o)' = 0 /\ ToTokens(r, o) = Due(r, o)
    BY <2>2, <2>4 DEF ToTokens, TokensDue
  <2>7. ASSUME NEW o \in Outcomes
        PROVE  tokens'[o].invested + ToTokens(s, o)' = HandledSum(o)'
    <3>1. /\ tokens[o].invested \in Int /\ HandledSum(o) \in Int /\ Due(r, o) \in Int
         
          /\ tokens[o].invested + ToTokens(r, o) = HandledSum(o)
      BY <1>3
    <3>2. tokens'[o].invested = tokens[o].invested + Due(r, o) /\ HandledSum(o)' = HandledSum(o)
      BY <1>13, <2>3
    <3>3. ToTokens(s, o)' = 0 /\ ToTokens(r, o) = Due(r, o)
      BY <2>6
    <3> QED BY <3>1, <3>2, <3>3
  <2> QED BY <1>2, <2>4, <2>7 DEF RunBalances, TokensDue, r
<1>12. CASE SelectTokens(h)
  <2>1. "selectTokens" \in r.work /\ "updateTokens" \notin r.work /\ tokens' = tokens
    BY <1>12 DEF SelectTokens, dbVars, RunBalances
  <2>3. ASSUME NEW o \in Outcomes
        PROVE  <<o, "invested">> \in TokenDiff(h) <=> r.tokens[o].invested # tokens[o].invested
    <3> DEFINE c == <<o, "invested">>
    <3>1. c \in Outcomes \X {"invested", "trueness"} /\ c[1] = o /\ c[2] = "invested"
      OBVIOUS
    <3>2. r.tokens[o]["invested"] = r.tokens[o].invested /\ tokens[o]["invested"] = tokens[o].invested
      OBVIOUS
    <3> HIDE DEF c
    <3> QED BY <3>1, <3>2 DEF TokenDiff, c
  <2>4. CASE TokenDiff(h) = {}
    <3>1. s = After(r, "selectTokens")
      BY <1>12, <2>4 DEF SelectTokens, TypeInv, TypeOK
    <3>2. /\ "selectTokens" \notin s.work /\ "updateTokens" \notin s.work
          /\ \A v \in s.work, o \in Outcomes : Due(s, o)' = Due(r, o)
      BY <1>0, <1>5, <2>1, <3>1
    <3>3. \A o \in Outcomes : Due(r, o) = 0
      <4> TAKE o \in Outcomes
      <4>1. r.tokens[o].invested = tokens[o].invested
        BY <2>3, <2>4
      <4>2. r.tokens[o].invested = tokens[o].invested + Due(r, o)
        BY <1>3, <2>1 DEF TokensDue
      <4>3. tokens[o].invested \in Int /\ Due(r, o) \in Int
        BY <1>3
      <4> HIDE DEF r
      <4> QED BY <4>1, <4>2, <4>3
    <3> HIDE DEF r
    <3>4. ASSUME NEW o \in Outcomes
          PROVE  ToTokens(s, o)' = 0 /\ ToTokens(r, o) = 0
      BY <3>2, <3>3 DEF ToTokens, TokensDue
    <3>5. ASSUME NEW o \in Outcomes
          PROVE  tokens'[o].invested + ToTokens(s, o)' = HandledSum(o)'
      BY <1>3, <1>13, <2>1, <3>4
    <3> QED BY <1>2, <3>2, <3>5 DEF RunBalances, TokensDue, r
  <2>5. CASE TokenDiff(h) # {}
    <3>1. s = [r EXCEPT !.work = (@ \ {"selectTokens"}) \union {"updateTokens"}, !.diff = TokenDiff(h)]
      BY <1>12, <2>5 DEF SelectTokens, TypeInv, TypeOK
    <3>2. /\ "selectTokens" \notin s.work /\ "updateTokens" \in s.work
          /\ s.op = r.op /\ s.on = r.on /\ s.tokens = r.tokens /\ s.diff = TokenDiff(h)
      BY <1>0, <3>1 DEF Run
    <3> HIDE DEF r
    <3>3. \A o \in Outcomes : Due(s, o)' = Due(r, o)
      BY <1>4, <3>2 DEF Due
    <3>4. ASSUME NEW o \in Outcomes
          PROVE  ToTokens(s, o)' = ToTokens(r, o)
      BY <2>1, <3>2, <3>3 DEF ToTokens, TokensDue
    <3>5. ASSUME NEW o \in Outcomes
          PROVE  /\ tokens'[o].invested + ToTokens(s, o)' = HandledSum(o)'
                 /\ s.tokens[o].invested = tokens'[o].invested + Due(s, o)'
                 /\ <<o, "invested">> \in s.diff <=> s.tokens[o].invested # tokens'[o].invested
      BY <1>3, <1>13, <2>1, <2>3, <3>2, <3>3, <3>4 DEF TokensDue
    <3> QED BY <1>2, <3>2, <3>5 DEF RunBalances, r
  <2> QED BY <2>4, <2>5
<1> QED BY <1>7, <1>8, <1>9, <1>10, <1>11, <1>12 DEF Proceeds

(* The balance of a run lasts over the steps that move neither side of it,   *)
(* nor the run.                                                            *)
LEMMA BalanceStays ==
    ASSUME TypeInv, [Next]_vars, tokens' = tokens, \A o \in Outcomes : HandledSum(o)' = HandledSum(o),
           NEW h \in Handlers, NEW r, r = run[h], r = run'[h], RunBalances(run[h])
    PROVE  RunBalances(r)'
<1>1. r.op = "trade" => trades'[r.on.log.no] = trades[r.on.log.no]
  BY RunEvents, StateGrows
<1>2. ASSUME NEW o
      PROVE  Due(r, o)' = Due(r, o)
  BY <1>1 DEF Due
<1>3. ASSUME NEW o
      PROVE  ToTokens(r, o)' = ToTokens(r, o)
  BY <1>2 DEF ToTokens, TokensDue
<1>4. RunBalances(r)
  OBVIOUS
<1>5. ASSUME NEW o \in Outcomes
      PROVE  /\ tokens'[o].invested + ToTokens(r, o)' = HandledSum(o)'
             /\ TokensDue(r) => r.tokens[o].invested = tokens'[o].invested + Due(r, o)'
             /\ "updateTokens" \in r.work =>
                  (<<o, "invested">> \in r.diff <=> r.tokens[o].invested # tokens'[o].invested)
  <2>1. /\ tokens[o].invested + ToTokens(r, o) = HandledSum(o)
        /\ TokensDue(r) => r.tokens[o].invested = tokens[o].invested + Due(r, o)
        /\ "updateTokens" \in r.work =>
             (<<o, "invested">> \in r.diff <=> r.tokens[o].invested # tokens[o].invested)
    BY <1>4 DEF RunBalances
  <2>2. HandledSum(o)' = HandledSum(o) /\ Due(r, o)' = Due(r, o)
        /\ ToTokens(r, o)' = ToTokens(r, o)
    BY <1>2, <1>3
  <2> QED BY <2>1, <2>2
<1>6. ~("selectTokens" \in r.work /\ "updateTokens" \in r.work)
  BY <1>4 DEF RunBalances
<1> QED BY <1>5, <1>6 DEF RunBalances, TokensDue

(* A run that begins to hold the rows while they are in balance.            *)
LEMMA BegunBalances ==
    ASSUME TypeInv, [Next]_vars, tokens' = tokens, trades' = trades,
           \A o \in Outcomes : tokens[o].invested = HandledSum(o),
           NEW d \in Delivery, Emitted(d.log), d.log.kind \in {"trade", "resolve"},
           NEW r, r = Begun(d), \A o \in Outcomes : HandledSum(o)' = HandledSum(o) + Due(r, o)
    PROVE  RunBalances(r)'
<1>1. /\ r.op = d.log.kind /\ r.on = d /\ r.diff = {}
      /\ r.op = "trade" => r.tokens = Added(trades[d.log.no]) /\ r.work = {"selectTokens", "saveMarket", "parts"}
      /\ r.op = "resolve" => r.tokens = Judged /\ r.work = {"selectTokens", "saveMarket"}
      /\ tokens \in [Outcomes -> Token] /\ d.log \in Log
  BY BegunFields DEF TypeInv, TypeOK, Delivery
<1>2. "selectTokens" \in r.work /\ "updateTokens" \notin r.work
  BY <1>1
<1>3. ASSUME NEW o \in Outcomes
      PROVE  /\ tokens[o].invested \in Int /\ Due(r, o) \in Int
             /\ r.tokens[o].invested = tokens[o].invested + Due(r, o)
  <2>1. tokens[o] \in Token /\ tokens[o].invested \in Int
    BY <1>1 DEF Token
  <2>2. CASE r.op = "trade"
    <3>1. PICK e : e = trades[d.log.no]
      OBVIOUS
    <3>2. e \in TradeEvent /\ e.outcome \in Outcomes /\ e.amount \in Int
      BY <1>1, <2>2, <3>1, EventTypes, AmountTypes DEF TradeEvent, TypeInv
    <3>3. Added(e)[o] = IF o = e.outcome THEN [tokens[o] EXCEPT !.invested = @ + e.amount] ELSE tokens[o]
      BY <1>1, <3>2 DEF Added
    <3>4. [tokens[o] EXCEPT !.invested = @ + e.amount].invested = tokens[o].invested + e.amount
      BY <2>1 DEF Token
    <3>5. Due(r, o) = IF e.outcome = o THEN e.amount ELSE 0
      BY <1>1, <2>2, <3>1 DEF Due
    <3>6. r.tokens[o] = Added(e)[o]
      BY <1>1, <2>2, <3>1
    <3> QED BY <2>1, <3>2, <3>3, <3>4, <3>5, <3>6
  <2>3. CASE r.op = "resolve"
    <3>1. r.tokens[o].invested = tokens[o].invested
      BY <1>1, <2>1, <2>3 DEF Judged, Token
    <3>2. Due(r, o) = 0
      BY <2>3 DEF Due
    <3> QED BY <2>1, <3>1, <3>2
  <2> QED BY <1>1, <2>2, <2>3
<1>4. ASSUME NEW o \in Outcomes
      PROVE  /\ tokens'[o].invested + ToTokens(r, o)' = HandledSum(o)'
             /\ r.tokens[o].invested = tokens'[o].invested + Due(r, o)'
  <2>1. HandledSum(o)' = HandledSum(o) + Due(r, o)
    OBVIOUS
  <2>2. Due(r, o)' = Due(r, o)
    BY DEF Due
  <2>3. ToTokens(r, o)' = Due(r, o)
    BY <1>2, <2>2 DEF ToTokens, TokensDue
  <2>4. tokens[o].invested = HandledSum(o) /\ tokens' = tokens
    OBVIOUS
  <2> QED BY <1>3, <2>1, <2>2, <2>3, <2>4
<1> QED BY <1>2, <1>4 DEF RunBalances, TokensDue

(* Without an overlap and a fault the rows stay in balance with the sum.     *)
LEMMA SumNext == TypeInv /\ SumInv /\ [Next]_vars => SumInv'
<1> DEFINE Result ==
      /\ \A g, h \in Handlers : HoldsTokens(g)' /\ HoldsTokens(h)' => g = h
      /\ \A h \in Handlers : HoldsTokens(h)' => RunBalances(run[h])'
      /\ (\A h \in Handlers : ~HoldsTokens(h)') =>
            \A o \in Outcomes : tokens'[o].invested = HandledSum(o)'
<1> SUFFICES ASSUME TypeInv, SumInv, [Next]_vars, ~overlapped', faults' = 0
             PROVE  Result
  BY DEF SumInv
<1>1. faults = 0 /\ TypeOK /\ run \in [Handlers -> Run] /\ faults \in Nat
  BY StateGrows, LedgerBounds DEF TypeInv, TypeOK
(* Steps that move no run with the rows.                                    *)
<1>2. ASSUME ~overlapped, tokens' = tokens, \A o \in Outcomes : HandledSum(o)' = HandledSum(o),
             \A h \in Handlers : HoldsTokens(h)' <=> HoldsTokens(h),
             \A h \in Handlers : HoldsTokens(h) => run'[h] = run[h]
      PROVE  Result
  <2>1. ASSUME NEW h \in Handlers, HoldsTokens(h)'
        PROVE  RunBalances(run[h])'
    <3>1. PICK r : r = run'[h]
      OBVIOUS
    <3>2. HoldsTokens(h) /\ r = run[h]
      BY <1>2, <2>1, <3>1
    <3>3. RunBalances(run[h])
      BY <1>1, <1>2, <3>2 DEF SumInv
    <3>4. RunBalances(r)'
      BY <1>2, <3>1, <3>2, <3>3, BalanceStays
    <3> QED BY <3>1, <3>4 DEF RunBalances, ToTokens, TokensDue, Due
  <2>2. ASSUME NEW g \in Handlers, NEW h \in Handlers, HoldsTokens(g)', HoldsTokens(h)'
        PROVE  g = h
    BY <1>1, <1>2, <2>2 DEF SumInv
  <2>3. ASSUME \A h \in Handlers : ~HoldsTokens(h)', NEW o \in Outcomes
        PROVE  tokens'[o].invested = HandledSum(o)'
    <3>1. \A h \in Handlers : ~HoldsTokens(h)
      BY <1>2, <2>3
    <3>2. tokens[o].invested = HandledSum(o)
      BY <1>1, <1>2, <3>1 DEF SumInv
    <3> QED BY <1>2, <3>2
  <2> QED BY <2>1, <2>2, <2>3
<1>3. ASSUME UNCHANGED <<run, tokens, overlapped>>, \A o \in Outcomes : HandledSum(o)' = HandledSum(o)
      PROVE  Result
  <2>1. \A h \in Handlers : HoldsTokens(h)' <=> HoldsTokens(h)
    BY <1>3 DEF HoldsTokens
  <2> HIDE DEF Result
  <2> QED BY <1>2, <1>3, <2>1
(* A run without the rows begins, goes on or ends.                          *)
<1>4. ASSUME ~overlapped, tokens' = tokens, \A o \in Outcomes : HandledSum(o)' = HandledSum(o),
             NEW g \in Handlers, NEW s, s.op \notin {"trade", "resolve"},
             run' = [run EXCEPT ![g] = s], ~HoldsTokens(g)
      PROVE  Result
  <2>1. \A h \in Handlers : run'[h] = IF h = g THEN s ELSE run[h]
    BY <1>1, <1>4
  <2>2. \A h \in Handlers : HoldsTokens(h)' <=> HoldsTokens(h)
    BY <1>4, <2>1 DEF HoldsTokens
  <2>3. \A h \in Handlers : HoldsTokens(h) => run'[h] = run[h]
    BY <1>4, <2>1
  <2> HIDE DEF Result
  <2> QED BY <1>2, <1>4, <2>2, <2>3
<1>5. CASE Chain \/ UNCHANGED vars
  <2>1. UNCHANGED <<run, tokens, overlapped, delivered, ignored>>
    BY <1>5 DEF Chain, Trades, ContractCloses, RowCloses, Reports, RedeemsOnChain, dbVars, vars
  <2> QED BY <1>3, <2>1, HandledSame
<1>6. ASSUME NEW g \in Handlers, NEW l \in Log, Deliver(g, l)
      PROVE  Result
  <2> DEFINE d == [log |-> l, nth |-> delivered[l] + 1]
  <2>1. /\ ~Active(g) /\ Emitted(l) /\ (delivered[l] = 0 \/ (again /\ delivered[l] = 1))
        /\ UNCHANGED <<trades, tokens>> /\ delivered' = [delivered EXCEPT ![l] = @ + 1]
    BY <1>6 DEF Deliver, chainVars, dbVars
  <2>2. d \in Delivery /\ d.log = l /\ d.nth = delivered[l] + 1
    BY <2>1, DeliveryFields
  <2>3. CASE Dropped(l)
    <3>1. UNCHANGED <<run, overlapped>> /\ ignored' = ignored \union {d}
      BY <1>6, <2>3 DEF Deliver
    <3> HIDE DEF d
    <3>3. \A o \in Outcomes : HandledSum(o)' = HandledSum(o)
      <4>1. d \notin ignored
        <5>1. delivered \in [Log -> 0 .. 2]
          BY <1>1 DEF TypeOK
        <5>2. ~(d.nth <= delivered[l])
          BY <2>2, <5>1
        <5> QED BY <2>2, <5>2 DEF TypeInv, ChainFits
      <4>2. ignored' # ignored
        BY <3>1, <4>1
      <4> QED BY <2>1, <2>2, <3>1, <4>2, HandledAdds
    <3> QED BY <1>3, <2>1, <3>1, <3>3
  <2>4. CASE ~Dropped(l)
    <3>1. /\ run' = [run EXCEPT ![g] = IF Begun(d).work = {} THEN Idle ELSE Begun(d)]
          /\ overlapped' = (overlapped \/ (l.kind # "redeem" /\ \E h \in Handlers : HoldsTokens(h)))
          /\ ignored' = ignored
      BY <1>6, <2>4 DEF Deliver, Begun
    <3>2. ~overlapped /\ ~HoldsTokens(g)
      BY <2>1, <3>1 DEF Active, HoldsTokens
    <3> HIDE DEF d
    <3>4. PICK r : r = Begun(d)
      OBVIOUS
    <3>7. r.op = l.kind /\ r.on = d
      BY <1>1, <2>1, <2>2, <3>4, BegunFields
    <3>3. \A o \in Outcomes : HandledSum(o)' = HandledSum(o) + Due(r, o)
      <4> TAKE o \in Outcomes
      <4>1. HandledSum(o)' = IF l.kind = "trade" /\ trades[l.no].outcome = o
                             THEN HandledSum(o) + trades[l.no].amount ELSE HandledSum(o)
        BY <2>1, <2>2, <3>1, HandledAdds
      <4>2. Due(r, o) = IF l.kind = "trade" /\ trades[l.no].outcome = o THEN trades[l.no].amount ELSE 0
        BY <2>2, <3>7 DEF Due
      <4>3. HandledSum(o) \in Int
        BY HandledSumType
      <4> QED BY <4>1, <4>2, <4>3
    <3>5. CASE l.kind = "redeem"
      <4>1. r.op = "redeem"
        BY <3>5, <3>7
      <4>4. \A o \in Outcomes : HandledSum(o)' = HandledSum(o)
        <5> TAKE o \in Outcomes
        <5>1. Due(r, o) = 0 /\ HandledSum(o) \in Int
          BY <4>1, HandledSumType DEF Due
        <5> QED BY <3>3, <5>1
      <4>2. PICK s : s = IF r.work = {} THEN Idle ELSE r
        OBVIOUS
      <4>3. s.op \notin {"trade", "resolve"}
        BY <4>1, <4>2, IdleFields
      <4> HIDE DEF Result
      <4> QED BY <1>4, <2>1, <3>1, <3>2, <3>4, <4>2, <4>3, <4>4
    <3>6. CASE l.kind \in {"trade", "resolve"}
      <4>1. (\A h \in Handlers : ~HoldsTokens(h)) /\ \A o \in Outcomes : tokens[o].invested = HandledSum(o)
        BY <1>1, <3>1, <3>2, <3>6 DEF SumInv
      <4>2. r.op = l.kind /\ r.work # {}
        BY <1>1, <2>1, <2>2, <3>4, <3>6, BegunFields
      <4>3. run' = [run EXCEPT ![g] = r]
        BY <3>1, <3>4, <4>2
      <4>4. RunBalances(r)'
        BY <2>1, <2>2, <3>3, <3>4, <3>6, <4>1, BegunBalances
      <4>5. \A h \in Handlers : run'[h] = IF h = g THEN r ELSE run[h]
        BY <1>1, <4>3
      <4>6. \A h \in Handlers : HoldsTokens(h)' <=> h = g
        BY <3>6, <4>1, <4>2, <4>5 DEF HoldsTokens
      <4>7. r = run'[g]
        BY <4>5
      <4>8. RunBalances(run[g])'
        BY <4>4, <4>7 DEF RunBalances, ToTokens, TokensDue, Due
      <4> QED BY <4>6, <4>8
    <3> QED BY <1>1, <2>1, <3>5, <3>6, EventTypes
  <2> QED BY <2>3, <2>4
<1>7. ASSUME NEW g \in Handlers, NEW u \in Users, SeesResult(g, u)
      PROVE  Result
  <2>1. /\ ~Active(g) /\ run' = [run EXCEPT ![g] = SeenRun(u)]
        /\ UNCHANGED <<tokens, overlapped, delivered, ignored>>
    BY <1>7 DEF SeesResult, SeenRun, dbVars
  <2>2. SeenRun(u).op = "seen"
    BY <1>1, SeenFields
  <2>3. \A o \in Outcomes : HandledSum(o)' = HandledSum(o)
    BY <2>1, HandledSame
  <2>4. ~HoldsTokens(g) /\ ~overlapped
    BY <2>1 DEF Active, HoldsTokens
  <2> HIDE DEF Result
  <2> QED BY <1>4, <2>1, <2>2, <2>3, <2>4
<1>8. ASSUME NEW g \in Handlers, Proceeds(g)
      PROVE  Result
  <2>1. PICK s \in Run : run' = [run EXCEPT ![g] = s] /\ (s = Idle \/ GoesOn(run[g], s))
    BY <1>8, QueryGoesOn
  <2>2. s.op \in {run[g].op, "none"} /\ s = run'[g]
    BY <1>1, <2>1, IdleFields DEF GoesOn
  <2>3. ~overlapped /\ delivered' = delivered /\ ignored' = ignored
    <3>1. UNCHANGED <<overlapped, delivered, ignored>>
      BY <1>8 DEF Proceeds, SelectTokens, UpdateTokens, SaveMarket, InsertParticipation, InsertHistory,
                  Monetize, Check, LogTransaction
    <3> QED BY <3>1
  <2>4. \A h \in Handlers : run'[h] = IF h = g THEN s ELSE run[h]
    BY <1>1, <2>1
  <2>5. CASE ~HoldsTokens(g)
    <3>1. /\ run[g].op \in {"none", "redeem", "seen"}
          /\ {"selectTokens", "updateTokens"} \intersect run[g].work = {}
      BY <1>1, <2>5 DEF TypeInv, RunFits, WorkOf, HoldsTokens, Run
    <3>2. tokens' = tokens
      BY <1>8, <3>1 DEF Proceeds, SelectTokens, UpdateTokens, SaveMarket, InsertParticipation,
                        InsertHistory, Check, LogTransaction, Monetize, dbVars
    <3>3. \A o \in Outcomes : HandledSum(o)' = HandledSum(o)
      BY <2>3, HandledSame
    <3>4. s.op \notin {"trade", "resolve"}
      BY <2>2, <3>1
    <3> HIDE DEF Result
    <3> QED BY <1>4, <2>1, <2>3, <2>5, <3>2, <3>3, <3>4
  <2>6. CASE HoldsTokens(g)
    <3>1. (\A h \in Handlers : HoldsTokens(h) => h = g) /\ RunBalances(run[g])
      BY <1>1, <2>3, <2>6 DEF SumInv
    <3>2. RunBalances(s)'
      BY <1>1, <1>8, <2>2, <2>6, <3>1, HolderBalances
    <3>3. RunBalances(run[g])'
      BY <2>2, <3>2 DEF RunBalances, ToTokens, TokensDue, Due
    <3>4. \A h \in Handlers : HoldsTokens(h)' => h = g
      BY <2>4, <3>1 DEF HoldsTokens
    <3>5. ASSUME \A h \in Handlers : ~HoldsTokens(h)', NEW o \in Outcomes
          PROVE  tokens'[o].invested = HandledSum(o)'
      <4>1. s.op # "trade"
        BY <2>2, <3>5 DEF HoldsTokens
      <4>2. Due(s, o)' = 0
        BY <4>1 DEF Due
      <4>3. ToTokens(s, o)' = 0
        BY <4>2 DEF ToTokens
      <4>4. tokens'[o].invested + ToTokens(s, o)' = HandledSum(o)'
        BY <3>2 DEF RunBalances
      <4>5. TypeInv'
        BY TypeNext
      <4>6. tokens'[o].invested \in Int /\ HandledSum(o)' \in Int
        <5>1. tokens'[o].invested \in Int
          BY <4>5 DEF TypeInv, TypeOK, Token
        <5>2. SumsOfInts'
          BY <4>5, SumsAreInts, PTL
        <5> QED BY <5>1, <5>2 DEF SumsOfInts
      <4> QED BY <4>3, <4>4, <4>6
    <3> QED BY <3>3, <3>4, <3>5
  <2> QED BY <2>5, <2>6
<1>9. CASE StartsOver \/ (\E l \in Log : LoadFails(l)) \/ \E h \in Handlers, w \in Work : QueryFails(h, w)
  BY <1>1, <1>9 DEF StartsOver, LoadFails, QueryFails
<1> QED BY <1>5, <1>6, <1>7, <1>8, <1>9 DEF Next

(* amount_invested is "sum of all investments made on the outcome" that a    *)
(* handler took up, once nothing is under way, if no two handlers held the   *)
(* rows at once and no query failed but inserts of participations.         *)
THEOREM InvestedIsTheSum == Spec => []InvestedIsSumWithoutOverlap
<1>1. Init => SumInv
  <2> SUFFICES ASSUME Init
               PROVE  /\ \A o \in Outcomes : tokens[o].invested = HandledSum(o)
                      /\ \A h \in Handlers : ~HoldsTokens(h)
    BY DEF SumInv
  <2>1. \A h \in Handlers : ~HoldsTokens(h)
    BY IdleFields DEF Init, HoldsTokens
  <2>2. ASSUME NEW o \in Outcomes
        PROVE  tokens[o].invested = HandledSum(o)
    <3>1. tokens[o].invested = 0
      BY DEF Init, NewTokens
    <3>2. HandledOf(o) = {}
      <4>1. \A d \in Delivery : d.log \in Log /\ ~(d.nth <= 0)
        BY DEF Delivery
      <4> QED BY <4>1 DEF Init, HandledOf, DeliveredOf
    <3>3. HandledSum(o) = 0
      BY <3>2, SumOfNothing DEF HandledSum, SumOfDeliveries
    <3> QED BY <3>1, <3>3
  <2> QED BY <2>1, <2>2
<1>2. SumInv => InvestedIsSumWithoutOverlap
  BY DEF SumInv, InvestedIsSumWithoutOverlap, InvestedIsSum, Quiet, Active, HoldsTokens, HandledSum
<1> QED BY <1>1, <1>2, SumNext, LedgerInvariant, PTL DEF Spec

=============================================================================
