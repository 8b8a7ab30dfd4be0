---------------------------- MODULE IndexerProofs ----------------------------
(***************************************************************************)
(* Proofs about the indexer of one chain, for every block range, first     *)
(* head, first offset and bound: type correctness, the exclusion between   *)
(* setups, connections and scheduled retries however restarts overlap,     *)
(* what a catch-up covers, and that an indexer whose node refuses          *)
(* WebSockets skips no log.                                                *)
(***************************************************************************)
EXTENDS IndexerDelivery, TLAPS

USE DEF Trade, Resolve, Redeem

(* A log has a block and one of three kinds.                                *)
LEMMA LogType ==
    ASSUME NEW l \in Log
    PROVE  l.block \in 1 .. MaxBlock /\ l.kind \in {1, 2, 3}
BY DEF Log, Kind

(* The fields of a setup.                                                   *)
LEMMA SetupType ==
    ASSUME NEW s \in Setup
    PROVE  /\ s.by \in {"init", "timer"}
           /\ s.at \in {"idle", "head", "fetch", "process", "save", "subscribe"}
           /\ s.cat \in Net /\ s.start \in Nat /\ s.from \in Nat /\ s.to \in Nat
           /\ s.latest \in Nat /\ s.kind \in {1, 2, 3} /\ s.batch \subseteq Log
BY DEF Setup, Kind

(* The boot's network is one.                                               *)
LEMMA FirstNet == 1 \in Net /\ \A n \in Net : n \in Nat \ {0}
BY BoundsAssumption DEF Net

(* The end of a range is a block number from its start up to the head the   *)
(* catch-up saw.                                                           *)
LEMMA UpToBound ==
    ASSUME NEW from \in Nat, NEW latest \in Nat, from <= latest
    PROVE  /\ UpTo(from, latest) \in Nat
           /\ from <= UpTo(from, latest) /\ UpTo(from, latest) <= latest
BY RangeAssumption DEF UpTo

(* The two outcomes of the loop's condition, field by field.               *)
NextOf(s, from, r) ==
    /\ r \in Setup
    /\ r.from = from /\ r.cat = s.cat
    /\ r.start = s.start /\ r.latest = s.latest /\ r.batch = s.batch
    /\ \/ /\ r.at = "fetch" /\ from <= s.latest
          /\ r.kind = 1 /\ r.to \in Nat
          /\ from <= r.to /\ r.to <= s.latest
       \/ r.at = "save" /\ from > s.latest

LEMMA NextRangeShape ==
    ASSUME NEW s \in Setup, NEW from \in Nat, NEW r, r = NextRange(s, from)
    PROVE  NextOf(s, from, r)
<1>0. s.latest \in Nat
  BY SetupType
<1>1. CASE from <= s.latest
  <2>1. UpTo(from, s.latest) \in Nat /\ from <= UpTo(from, s.latest)
        /\ UpTo(from, s.latest) <= s.latest
    BY <1>0, <1>1, UpToBound
  <2>2. r = [s EXCEPT !.at = "fetch", !.from = from, !.kind = 1, !.to = UpTo(from, s.latest)]
    BY <1>1 DEF NextRange
  <2> QED BY <2>1, <2>2, <1>1 DEF NextOf, Setup, Kind
<1>2. CASE ~(from <= s.latest)
  <2>1. r = [s EXCEPT !.at = "save", !.from = from]
    BY <1>2 DEF NextRange
  <2>2. from > s.latest
    BY <1>0, <1>2
  <2> QED BY <2>1, <2>2 DEF NextOf, Setup
<1> QED BY <1>1, <1>2

(* A setup that begins is one, and so is none.                              *)
LEMMA FreshSetupType ==
    ASSUME NEW who \in {"init", "timer"}, NEW n \in Net
    PROVE  /\ FreshSetup(who, n) \in Setup
           /\ FreshSetup(who, n).at = "head" /\ FreshSetup(who, n).batch = {}
           /\ FreshSetup(who, n).cat = n
BY DEF FreshSetup, Setup, Kind

LEMMA NoSetupType == NoSetup \in Setup /\ NoSetup.at = "idle" /\ NoSetup.batch = {}
BY FirstNet DEF FreshSetup, NoSetup, Setup, Kind

(* A budget only grows. *)
LEMMA SpendType ==
    ASSUME NEW s \in FaultSort, NEW b, used \in [FaultSort -> Nat], Spend(s, b)
    PROVE  used' \in [FaultSort -> Nat] /\ used'[s] > 0
BY DEF Spend

(* A setup that goes on keeps the types.                                    *)
LEMMA GoesOnType ==
    ASSUME TypeOK, NEW n \in Net, NEW s \in Setup, GoesOn(n, s)
    PROVE  setup' \in [Net -> Setup] /\ mem' \in [Net -> Nat]
<1>1. s.cat \in Net /\ s.from \in Nat
  BY SetupType
<1> QED BY <1>1 DEF GoesOn, TypeOK

(* So does a setup that rejects, and closing the connection of a network.   *)
LEMMA RejectsType ==
    ASSUME TypeOK, NEW n \in Net, Rejects(n)
    PROVE  setup' \in [Net -> Setup] /\ doomed' \in BOOLEAN
BY NoSetupType DEF Rejects, TypeOK

LEMMA CloseSlotType ==
    ASSUME TypeOK, NEW gone, CloseSlot(gone)
    PROVE  /\ conn' \in [Net -> {"none", "connecting", "open", "closing"}]
           /\ wire' \in [Net -> SUBSET Log] /\ slot' = 0
<1>1. conn' = [n \in Net |-> IF n = slot /\ conn[n] # "none"
                             THEN IF n = gone THEN "none" ELSE "closing"
                             ELSE conn[n]]
  BY DEF CloseSlot
<1>2. wire' = [n \in Net |-> IF n = slot THEN {} ELSE wire[n]]
  BY DEF CloseSlot
<1>3. slot' = 0
  BY DEF CloseSlot
<1>4. conn' \in [Net -> {"none", "connecting", "open", "closing"}]
  BY <1>1 DEF TypeOK
<1>5. wire' \in [Net -> SUBSET Log]
  BY <1>2 DEF TypeOK
<1> QED BY <1>3, <1>4, <1>5

(* What a process that has just started holds.                              *)
LEMMA StartedType ==
    /\ Started.phase \in [Net -> {"none", "asked", "read", "live", "released", "failed"}]
    /\ Started.mem \in [Net -> Nat]
    /\ Started.setup \in [Net -> Setup]
    /\ Started.conn \in [Net -> {"none", "connecting", "open", "closing"}]
    /\ Started.wire \in [Net -> SUBSET Log]
    /\ Started.timers \in [Net -> Nat]
BY NoSetupType DEF Started

(* Network by network.                                                      *)
LEMMA StartedShape ==
    ASSUME NEW n \in Net
    PROVE  /\ Started.phase[n] = (IF n = 1 THEN "asked" ELSE "none")
           /\ Started.mem[n] = 0 /\ Started.setup[n] = NoSetup
           /\ Started.conn[n] = "none" /\ Started.wire[n] = {} /\ Started.timers[n] = 0
BY DEF Started

(* The start of the process keeps the types.                                *)
LEMMA BootType == ASSUME TypeOK, Boot, used' \in [FaultSort -> Nat] PROVE TypeOK'
BY StartedType DEF TypeOK, Boot, chainVars

(* The types are right at the start.                                        *)
LEMMA InitType == Init => TypeOK
<1> SUFFICES ASSUME Init PROVE TypeOK
  OBVIOUS
<1>1. FirstHead \in 1 .. MaxBlock /\ FirstOffset \in Nat
  BY BoundsAssumption
<1>2. [l \in Log |-> 0] \in [Log -> Nat] /\ [s \in FaultSort |-> 0] \in [FaultSort -> Nat]
  OBVIOUS
<1> QED BY <1>1, <1>2, StartedType DEF Init, TypeOK

(* A block is mined.                                                        *)
LEMMA MineShape ==
    ASSUME TypeOK, Mine
    PROVE  \E new \in SUBSET Log :
             /\ logs' = logs \union new
             /\ \A l \in new : l.block = head + 1
             /\ wire' = [n \in Net |-> IF conn[n] = "open" THEN wire[n] \union new ELSE wire[n]]
             /\ head' = head + 1 /\ head' \in 1 .. MaxBlock
<1>1. PICK ks \in SUBSET Kind :
        LET new == {[block |-> head + 1, kind |-> k] : k \in ks} IN
        /\ logs' = logs \union new
        /\ wire' = [n \in Net |-> IF conn[n] = "open" THEN wire[n] \union new ELSE wire[n]]
  BY DEF Mine
<1> DEFINE new == {[block |-> head + 1, kind |-> k] : k \in ks}
<1>2. head' = head + 1 /\ head' \in 1 .. MaxBlock
  BY BoundsAssumption DEF Mine, TypeOK
<1>3. new \in SUBSET Log /\ \A l \in new : l.block = head + 1
  BY <1>2 DEF Log
<1>4. /\ logs' = logs \union new
      /\ wire' = [n \in Net |-> IF conn[n] = "open" THEN wire[n] \union new ELSE wire[n]]
  BY <1>1
<1> HIDE DEF new
<1> QED BY <1>2, <1>3, <1>4

(* What each step of a catch-up makes of its setup, field by field.         *)
LEMMA GotHeadShape ==
    ASSUME TypeOK, NEW n \in Net, GotHead(n)
    PROVE  \E start \in Nat, r \in Setup :
             /\ setup[n].at = "head" /\ phase[setup[n].cat] = "live" /\ GoesOn(n, r)
             /\ start = IF mem[setup[n].cat] # 0 THEN mem[setup[n].cat] ELSE head
             /\ r.from = start /\ r.cat = setup[n].cat
             /\ r.start = start /\ r.latest = head /\ r.batch = setup[n].batch
             /\ \/ /\ r.at = "fetch" /\ start <= head
                   /\ r.kind = 1 /\ r.to \in Nat /\ start <= r.to /\ r.to <= head
                \/ r.at = "save" /\ start > head
<1>s. setup[n] \in Setup /\ head \in Nat
  BY DEF TypeOK
<1>1. PICK start \in Nat :
        /\ start = IF mem[setup[n].cat] # 0 THEN mem[setup[n].cat] ELSE head
        /\ GoesOn(n, NextRange([setup[n] EXCEPT !.start = start, !.latest = head], start))
  <2>1. mem[setup[n].cat] \in Nat
    BY <1>s, SetupType DEF TypeOK
  <2> QED BY <1>s, <2>1 DEF GotHead
<1>2. PICK s \in Setup : s = [setup[n] EXCEPT !.start = start, !.latest = head]
  BY <1>s DEF Setup
<1>3. /\ s.cat = setup[n].cat /\ s.start = start
      /\ s.latest = head /\ s.batch = setup[n].batch
  BY <1>s, <1>2 DEF Setup
<1>4. PICK r : r = NextRange(s, start)
  OBVIOUS
<1>5. NextOf(s, start, r)
  BY <1>4, NextRangeShape
<1>6. GoesOn(n, r) /\ setup[n].at = "head" /\ phase[setup[n].cat] = "live"
  BY <1>1, <1>2, <1>4 DEF GotHead, Usable
<1> QED BY <1>1, <1>3, <1>5, <1>6 DEF NextOf

LEMMA HeadFailsShape ==
    ASSUME TypeOK, NEW n \in Net, HeadFails(n)
    PROVE  \E r \in Setup :
             /\ setup[n].at = "head" /\ GoesOn(n, r)
             /\ r.at = "subscribe" /\ r.cat = setup[n].cat /\ r.batch = setup[n].batch
<1>s. setup[n] \in Setup
  BY DEF TypeOK
<1>1. PICK r \in Setup : r = [setup[n] EXCEPT !.at = "subscribe"]
  BY <1>s DEF Setup
<1>2. r.at = "subscribe" /\ r.cat = setup[n].cat /\ r.batch = setup[n].batch
  BY <1>s, <1>1 DEF Setup
<1>3. GoesOn(n, r) /\ setup[n].at = "head"
  BY <1>1 DEF HeadFails
<1> QED BY <1>2, <1>3

LEMMA GotLogsShape ==
    ASSUME TypeOK, NEW n \in Net, GotLogs(n)
    PROVE  \E r \in Setup :
             /\ setup[n].at = "fetch" /\ GoesOn(n, r)
             /\ r.at = "process" /\ r.batch = RangeLogs(setup[n]) /\ r.cat = setup[n].cat
             /\ r.start = setup[n].start /\ r.from = setup[n].from /\ r.to = setup[n].to
             /\ r.latest = setup[n].latest /\ r.kind = setup[n].kind
<1>s. setup[n] \in Setup /\ RangeLogs(setup[n]) \subseteq Log
  BY DEF TypeOK, RangeLogs
<1>1. PICK r \in Setup : r = [setup[n] EXCEPT !.at = "process", !.batch = RangeLogs(setup[n])]
  BY <1>s DEF Setup
<1>2. /\ r.at = "process" /\ r.batch = RangeLogs(setup[n]) /\ r.cat = setup[n].cat
      /\ r.start = setup[n].start /\ r.from = setup[n].from /\ r.to = setup[n].to
      /\ r.latest = setup[n].latest /\ r.kind = setup[n].kind
  BY <1>s, <1>1 DEF Setup
<1>3. GoesOn(n, r) /\ setup[n].at = "fetch"
  BY <1>1 DEF GotLogs
<1> QED BY <1>2, <1>3

LEMMA LogsFailShape ==
    ASSUME TypeOK, NEW n \in Net, LogsFail(n)
    PROVE  \E r \in Setup :
             /\ setup[n].at = "fetch" /\ phase[setup[n].cat] = "live" /\ GoesOn(n, r)
             /\ r.at = "save" /\ r.batch = setup[n].batch /\ r.cat = setup[n].cat
             /\ r.start = setup[n].start /\ r.from = setup[n].from
<1>s. setup[n] \in Setup
  BY DEF TypeOK
<1>1. PICK r \in Setup : r = [setup[n] EXCEPT !.at = "save", !.from = WhenPanicked(setup[n])]
  BY <1>s DEF Setup, WhenPanicked
<1>2. /\ r.at = "save" /\ r.batch = setup[n].batch /\ r.cat = setup[n].cat
      /\ r.start = setup[n].start /\ r.from = setup[n].from
  BY <1>s, <1>1 DEF Setup, WhenPanicked
<1>3. GoesOn(n, r) /\ setup[n].at = "fetch" /\ phase[setup[n].cat] = "live"
  BY <1>1 DEF LogsFail, Usable
<1> QED BY <1>2, <1>3

LEMMA HandleBatchedShape ==
    ASSUME TypeOK, NEW n \in Net, NEW l \in Log, HandleBatched(n, l)
    PROVE  \E r \in Setup :
             /\ setup[n].at = "process" /\ l \in setup[n].batch /\ GoesOn(n, r)
             /\ r.at = "process" /\ r.batch = setup[n].batch \ {l} /\ r.cat = setup[n].cat
             /\ r.start = setup[n].start /\ r.from = setup[n].from /\ r.to = setup[n].to
             /\ r.latest = setup[n].latest /\ r.kind = setup[n].kind
<1>s. setup[n] \in Setup
  BY DEF TypeOK
<1>1. PICK r \in Setup : r = [setup[n] EXCEPT !.batch = @ \ {l}]
  BY <1>s DEF Setup
<1>2. /\ r.at = setup[n].at /\ r.batch = setup[n].batch \ {l} /\ r.cat = setup[n].cat
      /\ r.start = setup[n].start /\ r.from = setup[n].from /\ r.to = setup[n].to
      /\ r.latest = setup[n].latest /\ r.kind = setup[n].kind
  BY <1>s, <1>1 DEF Setup
<1>3. GoesOn(n, r) /\ setup[n].at = "process" /\ l \in setup[n].batch
  BY <1>1 DEF HandleBatched
<1> QED BY <1>2, <1>3

LEMMA BatchDoneShape ==
    ASSUME TypeOK, NEW n \in Net, BatchDone(n)
    PROVE  \E r \in Setup :
             /\ setup[n].at = "process" /\ setup[n].batch = {} /\ phase[setup[n].cat] = "live"
             /\ GoesOn(n, r)
             /\ r.batch = {} /\ r.cat = setup[n].cat
             /\ r.start = setup[n].start /\ r.latest = setup[n].latest
             /\ \/ /\ setup[n].kind = 3 /\ r.from = setup[n].to + 1
                   /\ \/ /\ r.at = "fetch" /\ setup[n].to + 1 <= setup[n].latest
                         /\ r.kind = 1 /\ r.to \in Nat
                         /\ r.from <= r.to /\ r.to <= setup[n].latest
                      \/ r.at = "save" /\ setup[n].to + 1 > setup[n].latest
                \/ /\ setup[n].kind # 3 /\ r.at = "fetch" /\ r.kind = setup[n].kind + 1
                   /\ r.from = setup[n].from /\ r.to = setup[n].to
<1>s. setup[n] \in Setup
  BY DEF TypeOK
<1>0. setup[n].at = "process" /\ setup[n].batch = {} /\ phase[setup[n].cat] = "live"
  BY DEF BatchDone, Usable
<1>1. CASE setup[n].kind = 3
  <2>1. setup[n].to + 1 \in Nat /\ AfterRange(setup[n]) = setup[n].to + 1
    BY <1>s, SetupType DEF AfterRange
  <2>2. PICK r : r = NextRange(setup[n], setup[n].to + 1)
    OBVIOUS
  <2>3. GoesOn(n, r)
    BY <1>1, <2>1, <2>2 DEF BatchDone, KindsDone
  <2>4. NextOf(setup[n], setup[n].to + 1, r)
    BY <1>s, <2>1, <2>2, NextRangeShape
  <2> QED BY <1>0, <1>1, <2>3, <2>4 DEF NextOf
<1>2. CASE setup[n].kind # 3
  <2>1. setup[n].kind + 1 \in Kind
    BY <1>s, <1>2, SetupType DEF Kind
  <2>2. PICK r \in Setup : r = [setup[n] EXCEPT !.at = "fetch", !.kind = @ + 1]
    BY <1>s, <2>1 DEF Setup
  <2>3. /\ r.at = "fetch" /\ r.kind = setup[n].kind + 1 /\ r.cat = setup[n].cat
        /\ r.batch = setup[n].batch /\ r.from = setup[n].from /\ r.to = setup[n].to
        /\ r.start = setup[n].start /\ r.latest = setup[n].latest
    BY <1>s, <2>2 DEF Setup
  <2>4. GoesOn(n, r)
    BY <1>2, <2>2 DEF BatchDone, KindsDone
  <2> QED BY <1>0, <1>2, <2>3, <2>4
<1> QED BY <1>1, <1>2

LEMMA SaveOffsetShape ==
    ASSUME TypeOK, NEW n \in Net, SaveOffset(n)
    PROVE  \E r \in Setup :
             /\ setup[n].at = "save" /\ dbOffset' = setup[n].from
             /\ setup' = [setup EXCEPT ![n] = r]
             /\ r.at = "subscribe" /\ r.cat = setup[n].cat /\ r.batch = setup[n].batch
<1>s. setup[n] \in Setup
  BY DEF TypeOK
<1>1. PICK r \in Setup : r = [setup[n] EXCEPT !.at = "subscribe"]
  BY <1>s DEF Setup
<1>2. r.at = "subscribe" /\ r.cat = setup[n].cat /\ r.batch = setup[n].batch
  BY <1>s, <1>1 DEF Setup
<1>3. setup' = [setup EXCEPT ![n] = r]
  <2>1. setup' = [setup EXCEPT ![n] = [setup[n] EXCEPT !.at = "subscribe"]]
    BY DEF SaveOffset
  <2> QED BY <1>1, <2>1
<1>4. setup[n].at = "save" /\ dbOffset' = setup[n].from
  BY DEF SaveOffset
<1> QED BY <1>2, <1>3, <1>4

(* Each step of a setup keeps the types.                                    *)
LEMMA CatchUpType ==
    ASSUME TypeOK, NEW n \in Net, CatchUpStep(n)
    PROVE  TypeOK'
<1>s. setup[n] \in Setup
  BY DEF TypeOK
<1>1. CASE ChainsRead(n)
  BY <1>1 DEF ChainsRead, TypeOK, chainVars, socketVars
<1>2. CASE Ready(n)
  <2>1. setup' \in [Net -> Setup]
    BY <1>2, FreshSetupType DEF Ready, TypeOK
  <2>2. /\ conn' \in [Net -> {"none", "connecting", "open", "closing"}]
        /\ wire' \in [Net -> SUBSET Log] /\ slot' = 0
    BY <1>2, CloseSlotType DEF Ready
  <2>3. phase' \in [Net -> {"none", "asked", "read", "live", "released", "failed"}] /\ current' \in Net
    BY <1>2 DEF Ready, TypeOK
  <2> QED BY <1>2, <2>1, <2>2, <2>3 DEF Ready, TypeOK, chainVars
<1>g. ASSUME NEW r \in Setup, GoesOn(n, r)
      PROVE  setup' \in [Net -> Setup] /\ mem' \in [Net -> Nat]
  BY <1>g, GoesOnType
<1>3. CASE GotHead(n)
  BY <1>3, <1>g, GotHeadShape DEF GotHead, TypeOK, chainVars, networkVars, socketVars
<1>4. CASE GotLogs(n)
  BY <1>4, <1>g, GotLogsShape DEF GotLogs, TypeOK, chainVars, networkVars, socketVars
<1>5. ASSUME NEW l \in Log, HandleBatched(n, l) PROVE TypeOK'
  <2>1. handled' \in [Log -> Nat]
    BY <1>5 DEF HandleBatched, TypeOK
  <2> QED BY <1>5, <1>g, <2>1, HandleBatchedShape
          DEF HandleBatched, TypeOK, chainVars, networkVars, socketVars
<1>6. CASE BatchDone(n)
  BY <1>6, <1>g, BatchDoneShape DEF BatchDone, TypeOK, chainVars, networkVars, socketVars
<1>7. CASE Throws(n)
  BY <1>7, RejectsType DEF Throws, TypeOK, chainVars, networkVars, socketVars
<1>8. CASE SaveOffset(n)
  <2>1. setup' \in [Net -> Setup]
    BY <1>8, <1>s DEF SaveOffset, TypeOK, Setup
  <2>2. dbOffset' \in Nat
    BY <1>8, <1>s, SetupType DEF SaveOffset
  <2> QED BY <1>8, <2>1, <2>2 DEF SaveOffset, TypeOK, chainVars, networkVars, socketVars
<1>9. CASE Subscribe(n)
  <2>1. setup' \in [Net -> Setup]
    BY <1>9, NoSetupType DEF Subscribe, TypeOK
  <2> QED BY <1>9, <2>1 DEF Subscribe, TypeOK, chainVars, networkVars
<1> QED BY <1>1, <1>2, <1>3, <1>4, <1>5, <1>6, <1>7, <1>8, <1>9 DEF CatchUpStep

(* So does each step of a connection or a retry. *)
LEMMA SocketType ==
    ASSUME TypeOK, NEW n \in Net, SocketStep(n)
    PROVE  TypeOK'
<1>1. CASE SocketOpens(n)
  BY <1>1 DEF SocketOpens, TypeOK, chainVars, networkVars
<1>2. CASE SocketCloses(n)
  <2>1. used' \in [FaultSort -> Nat]
    BY <1>2, SpendType DEF SocketCloses, FaultSort, TypeOK
  <2>2. timers' \in [Net -> Nat] /\ conn' \in [Net -> {"none", "connecting", "open", "closing"}]
    BY <1>2 DEF SocketCloses, RetriesOnClose, TypeOK
  <2>3. wire' \in [Net -> SUBSET Log] /\ slot' \in Net \union {0}
    BY <1>2 DEF SocketCloses, TypeOK
  <2> QED BY <1>2, <2>1, <2>2, <2>3 DEF SocketCloses, TypeOK, chainVars, networkVars
<1>3. CASE RetryFires(n)
  <2>1. timers' \in [Net -> Nat]
    BY <1>3 DEF RetryFires, TypeOK
  <2>2. /\ conn' \in [Net -> {"none", "connecting", "open", "closing"}]
        /\ wire' \in [Net -> SUBSET Log] /\ slot' = 0
    BY <1>3, CloseSlotType DEF RetryFires
  <2>3. setup' \in [Net -> Setup] /\ doomed' \in BOOLEAN
    <3>1. CASE current # 0
      <4>1. FreshSetup("timer", current) \in Setup
        BY <3>1, FreshSetupType DEF TypeOK
      <4> QED BY <1>3, <3>1, <4>1 DEF RetryFires, TypeOK
    <3>2. CASE current = 0
      BY <1>3, <3>2 DEF RetryFires, TypeOK
    <3> QED BY <3>1, <3>2
  <2> QED BY <1>3, <2>1, <2>2, <2>3 DEF RetryFires, TypeOK, chainVars, networkVars
<1>4. ASSUME NEW l \in Log, Receive(n, l) PROVE TypeOK'
  <2>1. [net |-> n, log |-> l, at |-> "process"] \in Task
    BY DEF Task
  <2> QED BY <1>4, <2>1 DEF Receive, TypeOK, chainVars, networkVars
<1> QED BY <1>1, <1>2, <1>3, <1>4 DEF SocketStep

(* And each step of a handler. *)
LEMMA TaskType ==
    ASSUME TypeOK, NEW t \in tasks, TaskStep(t)
    PROVE  TypeOK'
<1>0. t.net \in Net /\ t.log \in Log /\ t.log.block + 1 \in Nat /\ [t EXCEPT !.at = "save"] \in Task
  BY LogType DEF TypeOK, Task
<1>1. CASE TaskHandles(t)
  <2>1. handled' \in [Log -> Nat]
    BY <1>0, <1>1 DEF TaskHandles, TypeOK
  <2>2. tasks' \in SUBSET Task /\ mem' \in [Net -> Nat]
    BY <1>0, <1>1 DEF TaskHandles, TypeOK
  <2> QED BY <1>1, <2>1, <2>2 DEF TaskHandles, TypeOK, chainVars, networkVars, socketVars
<1>2. CASE TaskSaves(t)
  BY <1>0, <1>2 DEF TaskSaves, TypeOK, chainVars, networkVars, socketVars
<1>3. CASE TaskSaveFails(t)
  <2>1. used' \in [FaultSort -> Nat]
    BY <1>3, SpendType DEF TaskSaveFails, FaultSort, TypeOK
  <2> QED BY <1>3, <2>1 DEF TaskSaveFails, TypeOK, chainVars, networkVars, socketVars
<1> QED BY <1>1, <1>2, <1>3 DEF TaskStep

(* And each fault. *)
LEMMA FaultType ==
    ASSUME TypeOK, Faults
    PROVE  TypeOK'
<1>1. ASSUME NEW n \in Net, ChainsFail(n) PROVE TypeOK'
  BY <1>1, SpendType DEF ChainsFail, TypeOK, FaultSort, chainVars, socketVars
<1>2. ASSUME NEW n \in Net, HeadFails(n) PROVE TypeOK'
  <2>1. setup' \in [Net -> Setup] /\ mem' \in [Net -> Nat]
    BY <1>2, HeadFailsShape, GoesOnType
  <2>2. used' \in [FaultSort -> Nat]
    BY <1>2, SpendType DEF HeadFails, FaultSort, TypeOK
  <2> QED BY <1>2, <2>1, <2>2 DEF HeadFails, TypeOK, chainVars, networkVars, socketVars
<1>3. ASSUME NEW n \in Net, LogsFail(n) PROVE TypeOK'
  <2>1. setup' \in [Net -> Setup] /\ mem' \in [Net -> Nat]
    BY <1>3, LogsFailShape, GoesOnType
  <2>2. used' \in [FaultSort -> Nat]
    BY <1>3, SpendType DEF LogsFail, FaultSort, TypeOK
  <2> QED BY <1>3, <2>1, <2>2 DEF LogsFail, TypeOK, chainVars, networkVars, socketVars
<1>4. ASSUME NEW n \in Net, SaveFails(n) PROVE TypeOK'
  <2>1. setup' \in [Net -> Setup] /\ doomed' \in BOOLEAN
    BY <1>4, RejectsType DEF SaveFails
  <2>2. used' \in [FaultSort -> Nat]
    BY <1>4, SpendType DEF SaveFails, FaultSort, TypeOK
  <2>3. dbOffset' \in Nat
    BY <1>4, SetupType DEF SaveFails, TypeOK
  <2> QED BY <1>4, <2>1, <2>2, <2>3 DEF SaveFails, TypeOK, chainVars, networkVars, socketVars
<1>5. CASE Restart
  <2>1. used' \in [FaultSort -> Nat]
    BY <1>5, SpendType DEF Restart, FaultSort, TypeOK
  <2>2. PICK new \in Net :
          phase' = [n \in Net |-> IF n = new THEN "asked"
                                  ELSE IF n = current THEN "released" ELSE phase[n]]
    BY <1>5 DEF Restart
  <2>3. phase' \in [Net -> {"none", "asked", "read", "live", "released", "failed"}]
    BY <2>2 DEF TypeOK
  <2>4. mem' \in [Net -> Nat] /\ timers' \in [Net -> Nat] /\ overlapped' \in BOOLEAN /\ current' = 0
    BY <1>5 DEF Restart, TimersOnRestart, TypeOK
  <2>5. /\ conn' \in [Net -> {"none", "connecting", "open", "closing"}]
        /\ wire' \in [Net -> SUBSET Log] /\ slot' \in Net \union {0}
    BY <1>5, CloseSlotType DEF Restart, TypeOK, socketVars
  <2> QED BY <1>5, <2>1, <2>3, <2>4, <2>5 DEF Restart, TypeOK, chainVars
<1>6. CASE Crash
  BY <1>6, BootType, SpendType DEF Crash, FaultSort, TypeOK
<1> QED BY <1>1, <1>2, <1>3, <1>4, <1>5, <1>6 DEF Faults

(* Each step keeps the types. *)
LEMMA NextType == TypeOK /\ [Next]_vars => TypeOK'
<1> SUFFICES ASSUME TypeOK, [Next]_vars PROVE TypeOK'
  OBVIOUS
<1>1. CASE Mine
  <2>1. logs' \in SUBSET Log /\ wire' \in [Net -> SUBSET Log] /\ head' \in 1 .. MaxBlock
    BY <1>1, MineShape DEF TypeOK
  <2> QED BY <1>1, <2>1 DEF Mine, TypeOK, networkVars
<1>2. CASE DoomedExit
  BY <1>2, BootType DEF DoomedExit, TypeOK
<1>3. CASE UNCHANGED vars
  BY <1>3 DEF vars, TypeOK
<1> QED
  BY <1>1, <1>2, <1>3, CatchUpType, SocketType, TaskType, FaultType DEF Next

(* Every variable of the indexer has its type in every reachable state.    *)
THEOREM TypeCorrect == Spec => []TypeOK
<1>1. Init => TypeOK
  BY InitType
<1>2. TypeOK /\ [Next]_vars => TypeOK'
  BY NextType
<1> QED BY <1>1, <1>2, PTL DEF Spec

-----------------------------------------------------------------------------
(* Setups, connections and retries exclude each other: the steps that end   *)
(* one begin the next, and a due retry finds neither of the other two. Only *)
(* the network in networks can be released, and only restarts that overlap  *)
(* take it out of networks without releasing it.                           *)

ChainInv ==
    /\ SingleRetryChain
    /\ current # 0 => /\ phase[current] = "live"
                      /\ setup[current].at # "idle" => setup[current].cat = current
    /\ \A n \in Net : phase[n] \in {"none", "asked", "read", "failed"} =>
                        setup[n].at = "idle" /\ conn[n] = "none"
    /\ ~overlapped => /\ current # 0 /\ conn[current] # "none" => slot = current
                      /\ \A n \in Net : phase[n] \in {"asked", "read"} =>
                           /\ current = 0
                           /\ \A m \in Net : phase[m] \in {"asked", "read"} => m = n

(* At the start the setup of the boot is the only one of the three.         *)
LEMMA ChainInit ==
    ASSUME phase = Started.phase, current = 0, setup = Started.setup, conn = Started.conn,
           timers = Started.timers, overlapped = FALSE
    PROVE  ChainInv
<1>1. \A n \in Net : /\ phase[n] = (IF n = 1 THEN "asked" ELSE "none")
                     /\ setup[n].at = "idle" /\ conn[n] = "none" /\ timers[n] = 0
  BY StartedShape, NoSetupType
<1> QED
  BY <1>1, FirstNet DEF ChainInv, SingleRetryChain, AtMostOneLink, OneNetworkServed, NeverAbandoned, Links

(* A budget is never given back.                                            *)
LEMMA FaultsStay ==
    ASSUME TypeOK, [Next]_vars, NEW f \in FaultSort, used'[f] = 0
    PROVE  used[f] = 0
<1>1. used \in [FaultSort -> Nat]
  BY DEF TypeOK
<1>2. ASSUME NEW g \in FaultSort, NEW b, Spend(g, b)
      PROVE  used[f] = 0
  BY <1>1, <1>2 DEF Spend
<1>3. CASE used' = used
  BY <1>3
<1>4. ASSUME NEW n \in Net, CatchUpStep(n) PROVE used' = used
  BY <1>4 DEF CatchUpStep, ChainsRead, Ready, GotHead, GotLogs, HandleBatched, BatchDone, Throws,
              SaveOffset, Subscribe
<1>5. ASSUME NEW n \in Net, SocketStep(n) PROVE used[f] = 0
  BY <1>2, <1>3, <1>5 DEF SocketStep, SocketOpens, SocketCloses, RetryFires, Receive, FaultSort
<1>6. ASSUME NEW t \in tasks, TaskStep(t) PROVE used[f] = 0
  BY <1>2, <1>3, <1>6 DEF TaskStep, TaskHandles, TaskSaves, TaskSaveFails, FaultSort
<1>7. ASSUME Faults PROVE used[f] = 0
  BY <1>2, <1>7 DEF Faults, ChainsFail, HeadFails, LogsFail, SaveFails, Restart, Crash, FaultSort
<1> QED
  BY <1>3, <1>4, <1>5, <1>6, <1>7 DEF Next, Mine, DoomedExit, vars

(* A catch-up that goes on is the same setup, at another await.             *)
LEMMA RunsOn ==
    ASSUME TypeOK, NEW n \in Net,
           \/ GotHead(n) \/ HeadFails(n) \/ GotLogs(n) \/ LogsFail(n) \/ BatchDone(n)
           \/ SaveOffset(n) \/ (\E l \in Log : HandleBatched(n, l))
    PROVE  \E s \in Setup : /\ setup' = [setup EXCEPT ![n] = s]
                            /\ setup[n].at # "idle" /\ s.at # "idle"
                            /\ s.cat = setup[n].cat
<1>1. CASE GotHead(n)
  BY <1>1, GotHeadShape DEF GoesOn
<1>2. CASE HeadFails(n)
  BY <1>2, HeadFailsShape DEF GoesOn
<1>3. CASE GotLogs(n)
  BY <1>3, GotLogsShape DEF GoesOn
<1>4. CASE LogsFail(n)
  BY <1>4, LogsFailShape DEF GoesOn
<1>5. CASE BatchDone(n)
  BY <1>5, BatchDoneShape DEF GoesOn
<1>6. CASE SaveOffset(n)
  BY <1>6, SaveOffsetShape
<1>7. ASSUME NEW l \in Log, HandleBatched(n, l)
      PROVE  \E s \in Setup : /\ setup' = [setup EXCEPT ![n] = s]
                              /\ setup[n].at # "idle" /\ s.at # "idle"
                              /\ s.cat = setup[n].cat
  BY <1>7, HandleBatchedShape DEF GoesOn
<1> QED BY <1>1, <1>2, <1>3, <1>4, <1>5, <1>6, <1>7

(* Steps that begin and end none of the three leave the chains as they are. *)
LEMMA ChainUndisturbed ==
    ASSUME TypeOK, TypeOK', ChainInv, UNCHANGED <<phase, current, overlapped, timers, slot>>,
           \A m \in Net : /\ conn'[m] = "none" <=> conn[m] = "none"
                          /\ setup'[m].at = "idle" <=> setup[m].at = "idle"
                          /\ setup'[m].cat = setup[m].cat,
           used'["db"] = 0 => used["db"] = 0
    PROVE  ChainInv'
<1>1. \A m \in Net : Links(m)' = Links(m)
  BY DEF Links
<1>2. current # 0 => current \in Net
  BY DEF TypeOK
<1>3. SingleRetryChain'
  BY <1>1, <1>2 DEF ChainInv, SingleRetryChain, AtMostOneLink, OneNetworkServed, NeverAbandoned
<1> QED BY <1>2, <1>3 DEF ChainInv

(* Closing the connection in websocketNetworks.                             *)
LEMMA CloseSlotShape ==
    ASSUME TypeOK, NEW gone \in Net \union {0}, CloseSlot(gone), NEW m \in Net
    PROVE  /\ conn'[m] = "none" <=> conn[m] = "none" \/ (m = slot /\ m = gone)
           /\ slot' = 0
BY DEF CloseSlot, TypeOK

(* A network is ready: it becomes the one in networks, with its setup.      *)
LEMMA ChainReady ==
    ASSUME TypeOK, TypeOK', ChainInv, NEW n \in Net, Ready(n)
    PROVE  ChainInv'
<1>1. /\ phase[n] = "read" /\ current' = n /\ UNCHANGED <<timers, overlapped, used>>
      /\ phase' = [phase EXCEPT ![n] = "live"]
      /\ \A m \in Net \ {n} : setup'[m] = setup[m]
      /\ setup'[n].at = "head" /\ setup'[n].cat = n
  BY FreshSetupType DEF Ready, TypeOK
<1>2. \A m \in Net : conn'[m] = "none" <=> conn[m] = "none"
  <2>1. CloseSlot(0) /\ \A m \in Net : m # 0
    BY FirstNet DEF Ready
  <2> QED BY <2>1, CloseSlotShape
<1>3. setup[n].at = "idle" /\ conn[n] = "none" /\ timers[n] = 0
  BY <1>1 DEF ChainInv, SingleRetryChain, AtMostOneLink
<1>4. \A m \in Net \ {n} : phase'[m] = phase[m] /\ Links(m)' = Links(m)
  BY <1>1, <1>2 DEF Links, TypeOK
<1>5. Links(n)' = 1 /\ phase'[n] = "live" /\ conn'[n] = "none"
  BY <1>1, <1>2, <1>3 DEF Links, TypeOK
<1>6. AtMostOneLink'
  BY <1>1, <1>4, <1>5 DEF ChainInv, SingleRetryChain, AtMostOneLink
<1>7. NeverAbandoned'
  BY <1>1, <1>5, FirstNet DEF NeverAbandoned
<1>8. ~overlapped => current = 0 /\ \A m \in Net : phase[m] \in {"asked", "read"} => m = n
  BY <1>1 DEF ChainInv
<1>9. OneNetworkServed'
  BY <1>1, <1>2, <1>4, <1>8, FirstNet DEF ChainInv, SingleRetryChain, OneNetworkServed
<1> QED BY <1>1, <1>2, <1>4, <1>5, <1>6, <1>7, <1>8, <1>9 DEF ChainInv, SingleRetryChain

(* A setup throws, or ends with its offset not saved.                       *)
LEMMA ChainRejects ==
    ASSUME TypeOK, TypeOK', ChainInv, NEW n \in Net, Throws(n) \/ SaveFails(n)
    PROVE  ChainInv'
<1>1. /\ setup[n].at # "idle" /\ UNCHANGED <<phase, current, overlapped, slot, conn, timers>>
      /\ setup'[n].at = "idle" /\ \A m \in Net \ {n} : setup'[m] = setup[m]
  BY NoSetupType DEF Throws, SaveFails, Rejects, TypeOK, networkVars, socketVars
<1>2. \A m \in Net \ {n} : Links(m)' = Links(m)
  BY <1>1 DEF Links
<1>3. Links(n)' = Links(n) - 1 /\ Links(n) \in Nat
  BY <1>1 DEF Links, TypeOK
<1>4. used'["db"] = 0 => n # current /\ used' = used
  <2>1. CASE SaveFails(n)
    BY <2>1, SpendType DEF SaveFails, FaultSort, TypeOK
  <2>2. CASE Throws(n)
    <3>1. phase[setup[n].cat] # "live" /\ used' = used
      BY <2>2 DEF Throws, Usable
    <3>2. n = current => setup[n].cat = n /\ phase[n] = "live"
      BY <1>1, FirstNet DEF ChainInv
    <3> QED BY <3>1, <3>2
  <2> QED BY <2>1, <2>2
<1>5. AtMostOneLink'
  BY <1>1, <1>2, <1>3 DEF ChainInv, SingleRetryChain, AtMostOneLink
<1>6. NeverAbandoned'
  BY <1>1, <1>2, <1>4 DEF ChainInv, SingleRetryChain, NeverAbandoned, TypeOK
<1>7. OneNetworkServed'
  BY <1>1 DEF ChainInv, SingleRetryChain, OneNetworkServed
<1> QED BY <1>1, <1>5, <1>6, <1>7 DEF ChainInv, SingleRetryChain, TypeOK

(* A setup opens its socket, or ends on a network that was released.        *)
LEMMA ChainSubscribe ==
    ASSUME TypeOK, TypeOK', ChainInv, NEW n \in Net, Subscribe(n)
    PROVE  ChainInv'
<1>1. /\ setup[n].at = "subscribe" /\ UNCHANGED <<phase, current, overlapped, timers, used>>
      /\ setup'[n].at = "idle" /\ \A m \in Net \ {n} : setup'[m] = setup[m]
      /\ \A m \in Net \ {n} : conn'[m] = conn[m]
      /\ IF phase[n] = "live" THEN conn'[n] = "connecting" /\ slot' = n
                              ELSE UNCHANGED <<conn, slot>>
  BY NoSetupType DEF Subscribe, TypeOK, networkVars
<1>2. \A m \in Net \ {n} : Links(m)' = Links(m)
  BY <1>1 DEF Links
<1>3. phase[n] = "live" => Links(n) = 1 /\ Links(n)' = 1
  <2>1. phase[n] = "live" => Links(n) <= 1
    BY DEF ChainInv, SingleRetryChain, AtMostOneLink
  <2>2. timers[n] \in Nat
    BY DEF TypeOK
  <2> QED BY <1>1, <2>1, <2>2 DEF Links
<1>4. phase[n] # "live" => n # current
  BY FirstNet DEF ChainInv
<1>5. AtMostOneLink'
  BY <1>1, <1>2, <1>3 DEF ChainInv, SingleRetryChain, AtMostOneLink
<1>6. NeverAbandoned'
  BY <1>1, <1>2, <1>3, <1>4 DEF ChainInv, SingleRetryChain, NeverAbandoned, TypeOK
<1>7. ~overlapped /\ phase[n] = "live" => n = current
  BY DEF ChainInv, SingleRetryChain, OneNetworkServed
<1>8. OneNetworkServed'
  BY <1>1, <1>7 DEF ChainInv, SingleRetryChain, OneNetworkServed
<1>9. ~overlapped => (current # 0 /\ conn'[current] # "none" => slot' = current)
  <2>1. CASE phase[n] = "live"
    BY <1>1, <1>7, <2>1
  <2>2. CASE phase[n] # "live"
    BY <1>1, <2>2 DEF ChainInv
  <2> QED BY <2>1, <2>2
<1>10. \A m \in Net : phase[m] \in {"none", "asked", "read", "failed"} =>
                        setup'[m].at = "idle" /\ conn'[m] = "none"
  BY <1>1 DEF ChainInv
<1> QED BY <1>1, <1>5, <1>6, <1>8, <1>9, <1>10 DEF ChainInv, SingleRetryChain, TypeOK

(* A connection ends; on a network that is served a retry follows.          *)
LEMMA ChainCloses ==
    ASSUME TypeOK, TypeOK', ChainInv, NEW n \in Net, SocketCloses(n), used'["db"] = 0 => used["db"] = 0
    PROVE  ChainInv'
<1>1. /\ conn[n] # "none" /\ UNCHANGED <<phase, current, overlapped, setup>>
      /\ conn'[n] = "none" /\ \A m \in Net \ {n} : conn'[m] = conn[m] /\ timers'[m] = timers[m]
      /\ slot' = IF slot = n THEN 0 ELSE slot
      /\ timers'[n] = IF phase[n] = "live" THEN timers[n] + 1 ELSE timers[n]
  BY DEF SocketCloses, RetriesOnClose, TypeOK, networkVars
<1>2. \A m \in Net \ {n} : Links(m)' = Links(m)
  BY <1>1 DEF Links
<1>3. phase[n] = "live" => Links(n)' = Links(n)
  BY <1>1 DEF Links, TypeOK
<1>4. phase[n] # "live" => n # current
  BY FirstNet DEF ChainInv
<1>5. AtMostOneLink'
  BY <1>1, <1>2, <1>3 DEF ChainInv, SingleRetryChain, AtMostOneLink
<1>6. NeverAbandoned'
  BY <1>1, <1>2, <1>3, <1>4 DEF ChainInv, SingleRetryChain, NeverAbandoned, TypeOK
<1>7. OneNetworkServed'
  BY <1>1 DEF ChainInv, SingleRetryChain, OneNetworkServed
<1>8. ~overlapped => (current # 0 /\ conn'[current] # "none" => slot' = current)
  BY <1>1 DEF ChainInv, TypeOK
<1> QED BY <1>1, <1>5, <1>6, <1>7, <1>8 DEF ChainInv, SingleRetryChain

(* A retry is due: it finds no setup and no connection of its network.      *)
LEMMA ChainFires ==
    ASSUME TypeOK, TypeOK', ChainInv, NEW n \in Net, RetryFires(n)
    PROVE  ChainInv'
<1>1. /\ timers[n] > 0 /\ UNCHANGED <<phase, current, overlapped, used>>
      /\ timers'[n] = timers[n] - 1 /\ \A m \in Net \ {n} : timers'[m] = timers[m]
      /\ \A m \in Net \ {n} : setup'[m] = setup[m]
      /\ IF current # 0 THEN setup'[n].at = "head" /\ setup'[n].cat = current ELSE setup' = setup
  BY FreshSetupType DEF RetryFires, TypeOK, networkVars
<1>2. \A m \in Net : conn'[m] = "none" <=> conn[m] = "none"
  <2>1. CloseSlot(0) /\ \A m \in Net : m # 0
    BY FirstNet DEF RetryFires
  <2> QED BY <2>1, CloseSlotShape
<1>3. phase[n] = "live" /\ Links(n) <= 1
  BY <1>1 DEF ChainInv, SingleRetryChain, AtMostOneLink
<1>4. timers[n] = 1 /\ setup[n].at = "idle" /\ conn[n] = "none"
  BY <1>1, <1>3 DEF Links, TypeOK
<1>5. \A m \in Net \ {n} : Links(m)' = Links(m)
  BY <1>1, <1>2 DEF Links
<1>6. timers'[n] = 0 /\ Links(n)' = IF current # 0 THEN 1 ELSE 0
  BY <1>1, <1>2, <1>4 DEF Links
<1>7. AtMostOneLink'
  BY <1>1, <1>5, <1>6 DEF ChainInv, SingleRetryChain, AtMostOneLink
<1>8. NeverAbandoned'
  BY <1>1, <1>5, <1>6 DEF ChainInv, SingleRetryChain, NeverAbandoned, TypeOK
<1>9. OneNetworkServed'
  BY <1>1, <1>2 DEF ChainInv, SingleRetryChain, OneNetworkServed
<1>10. ~overlapped => (current # 0 => conn'[current] = "none")
  <2>1. ~overlapped => n = current
    BY <1>3 DEF ChainInv, SingleRetryChain, OneNetworkServed
  <2> QED BY <1>2, <1>4, <2>1
<1>11. current # 0 => (setup'[current].at # "idle" => setup'[current].cat = current)
  BY <1>1 DEF ChainInv, TypeOK
<1>12. \A m \in Net : phase[m] \in {"none", "asked", "read", "failed"} =>
                        setup'[m].at = "idle" /\ conn'[m] = "none"
  BY <1>1, <1>2, <1>3 DEF ChainInv
<1> QED BY <1>1, <1>7, <1>8, <1>9, <1>10, <1>11, <1>12 DEF ChainInv, SingleRetryChain, TypeOK

(* An admin's restart.                                                      *)
LEMMA ChainRestart ==
    ASSUME TypeOK, TypeOK', ChainInv, Restart
    PROVE  ChainInv'
<1>1. PICK new \in Net :
        /\ \A n \in Net : phase[n] = "none" <=> n >= new
        /\ phase' = [n \in Net |-> IF n = new THEN "asked"
                                   ELSE IF n = current THEN "released" ELSE phase[n]]
  BY DEF Restart
<1>2. /\ \A n \in Net : timers'[n] = 0
      /\ current' = 0 /\ UNCHANGED setup
      /\ overlapped' = (overlapped \/ \E n \in Net : phase[n] \in {"asked", "read"})
  BY DEF Restart, TimersOnRestart
<1>3. phase[new] = "none" /\ new # current /\ phase'[new] = "asked"
  <2>1. phase[new] = "none"
    BY <1>1, FirstNet
  <2>2. new # current
    BY <2>1, FirstNet DEF ChainInv
  <2> QED BY <1>1, <2>1, <2>2
<1>4. \A m \in Net : conn'[m] = "none" <=> conn[m] = "none" \/ (m = slot /\ m = current)
  <2>1. CASE current = 0
    BY <2>1, FirstNet DEF Restart, socketVars
  <2>2. CASE current # 0
    <3>1. CloseSlot(current) /\ current \in Net \union {0}
      BY <2>2 DEF Restart, TypeOK
    <3> QED BY <3>1, CloseSlotShape
  <2> QED BY <2>1, <2>2
<1>5. \A m \in Net \ {new} : phase'[m] = IF m = current THEN "released" ELSE phase[m]
  BY <1>1
<1>6. AtMostOneLink'
  <2>1. ASSUME NEW m \in Net, phase'[m] = "live" PROVE Links(m)' <= 1
    <3>1. phase[m] = "live" /\ Links(m) <= 1
      BY <1>3, <1>5, <2>1 DEF ChainInv, SingleRetryChain, AtMostOneLink
    <3>2. timers[m] \in Nat
      BY DEF TypeOK
    <3> QED BY <1>2, <1>4, <3>1, <3>2 DEF Links
  <2> QED BY <1>2, <2>1 DEF AtMostOneLink
<1>7. NeverAbandoned'
  BY <1>2, <1>3 DEF NeverAbandoned
<1>8. ASSUME ~overlapped'
      PROVE  /\ \A m \in Net : phase'[m] # "live" /\ conn'[m] = "none"
             /\ \A m \in Net : phase'[m] \in {"asked", "read"} => m = new
  <2>1. ~overlapped /\ \A m \in Net : phase[m] \notin {"asked", "read"}
    BY <1>2, <1>8
  <2>2. ASSUME NEW m \in Net PROVE phase'[m] # "live" /\ conn'[m] = "none"
    <3>1. CASE m = current
      BY <1>3, <1>4, <1>5, <2>1, <3>1, FirstNet DEF ChainInv
    <3>2. CASE m # current
      BY <1>3, <1>4, <1>5, <2>1, <3>2 DEF ChainInv, SingleRetryChain, OneNetworkServed
    <3> QED BY <3>1, <3>2
  <2>3. \A m \in Net : phase'[m] \in {"asked", "read"} => m = new
    BY <1>5, <2>1
  <2> QED BY <2>2, <2>3
<1>9. OneNetworkServed'
  BY <1>8 DEF OneNetworkServed
<1>10. \A m \in Net : phase'[m] \in {"none", "asked", "read", "failed"} =>
                        setup'[m].at = "idle" /\ conn'[m] = "none"
  BY <1>2, <1>3, <1>4, <1>5 DEF ChainInv
<1> QED BY <1>2, <1>6, <1>7, <1>8, <1>9, <1>10 DEF ChainInv, SingleRetryChain

(* What ends a setup, a connection or a retry starts another of the three,  *)
(* or the process is dead, or a query of the chain table has failed.        *)
LEMMA ChainStep == TypeOK /\ TypeOK' /\ ChainInv /\ [Next]_vars => ChainInv'
<1> SUFFICES ASSUME TypeOK, TypeOK', ChainInv, [Next]_vars PROVE ChainInv'
  OBVIOUS
<1>u. used'["db"] = 0 => used["db"] = 0
  BY FaultsStay DEF FaultSort
<1>1. ASSUME NEW n \in Net,
             \/ GotHead(n) \/ HeadFails(n) \/ GotLogs(n) \/ LogsFail(n) \/ BatchDone(n)
             \/ SaveOffset(n) \/ (\E l \in Log : HandleBatched(n, l))
      PROVE  ChainInv'
  <2>1. PICK s \in Setup : /\ setup' = [setup EXCEPT ![n] = s]
                           /\ setup[n].at # "idle" /\ s.at # "idle"
                           /\ s.cat = setup[n].cat
    BY <1>1, RunsOn
  <2>2. UNCHANGED <<phase, current, overlapped, timers, slot, conn>>
    BY <1>1 DEF GotHead, HeadFails, GotLogs, LogsFail, BatchDone, SaveOffset, HandleBatched,
                networkVars, socketVars
  <2>3. \A m \in Net : /\ setup'[m].at = "idle" <=> setup[m].at = "idle"
                       /\ setup'[m].cat = setup[m].cat
    BY <2>1 DEF TypeOK
  <2> QED BY <1>u, <2>2, <2>3, ChainUndisturbed
<1>2. ASSUME NEW n \in Net, ChainsRead(n) \/ ChainsFail(n) PROVE ChainInv'
  <2>1. /\ phase[n] = "asked" /\ phase' \in {[phase EXCEPT ![n] = "read"], [phase EXCEPT ![n] = "failed"]}
        /\ UNCHANGED <<current, overlapped, timers, slot, conn, setup>>
    BY <1>2 DEF ChainsRead, ChainsFail, socketVars
  <2>2. \A m \in Net : Links(m)' = Links(m)
    BY <2>1 DEF Links
  <2>3. \A m \in Net \ {n} : phase'[m] = phase[m]
    BY <2>1 DEF TypeOK
  <2>4. phase'[n] \in {"read", "failed"} /\ (used'["db"] = 0 => phase'[n] = "read")
    <3>1. CASE ChainsRead(n)
      BY <3>1 DEF ChainsRead, TypeOK
    <3>2. CASE ChainsFail(n)
      BY <3>2, SpendType DEF ChainsFail, TypeOK, FaultSort
    <3> QED BY <1>2, <3>1, <3>2
  <2>5. AtMostOneLink'
    BY <2>1, <2>2, <2>3, <2>4 DEF ChainInv, SingleRetryChain, AtMostOneLink
  <2>6. NeverAbandoned'
    BY <1>u, <2>1, <2>2, <2>3, <2>4 DEF ChainInv, SingleRetryChain, NeverAbandoned, TypeOK
  <2>7. OneNetworkServed'
    BY <2>1, <2>3, <2>4 DEF ChainInv, SingleRetryChain, OneNetworkServed
  <2> QED BY <2>1, <2>3, <2>4, <2>5, <2>6, <2>7 DEF ChainInv, SingleRetryChain, TypeOK
<1>3. ASSUME NEW n \in Net, SocketOpens(n) PROVE ChainInv'
  <2>1. /\ UNCHANGED <<phase, current, overlapped, timers, slot, setup>>
        /\ \A m \in Net : conn'[m] = "none" <=> conn[m] = "none"
    BY <1>3 DEF SocketOpens, TypeOK, networkVars
  <2> QED BY <1>u, <2>1, ChainUndisturbed
<1>4. ASSUME UNCHANGED <<phase, current, overlapped, timers, slot, setup, conn>> PROVE ChainInv'
  BY <1>u, <1>4, ChainUndisturbed
<1>5. CASE Boot
  BY <1>5, StartedShape, NoSetupType, FirstNet
  DEF Boot, ChainInv, SingleRetryChain, AtMostOneLink, OneNetworkServed, NeverAbandoned, Links
<1>6. ASSUME NEW n \in Net, CatchUpStep(n) PROVE ChainInv'
  BY <1>1, <1>2, <1>6, ChainReady, ChainRejects, ChainSubscribe DEF CatchUpStep
<1>7. ASSUME NEW n \in Net, SocketStep(n) PROVE ChainInv'
  <2>1. ASSUME NEW l \in Log, Receive(n, l) PROVE ChainInv'
    BY <1>4, <2>1 DEF Receive, networkVars
  <2> QED BY <1>3, <1>u, <1>7, <2>1, ChainCloses, ChainFires DEF SocketStep
<1>8. ASSUME NEW t \in tasks, TaskStep(t) PROVE ChainInv'
  BY <1>4, <1>8 DEF TaskStep, TaskHandles, TaskSaves, TaskSaveFails, networkVars, socketVars
<1>9. CASE Faults
  BY <1>1, <1>2, <1>5, <1>9, ChainRejects, ChainRestart DEF Faults, Crash
<1> QED
  BY <1>4, <1>5, <1>6, <1>7, <1>8, <1>9 DEF Next, Mine, DoomedExit, vars, networkVars

(* However closes, retries, crashes and admin restarts interleave, also two *)
(* restarts that both await the chains, each network has at most one of a    *)
(* running setup, a connection and a scheduled retry; unless restarts        *)
(* overlapped no second network is served; and unless the chain table failed *)
(* the one in networks is never left without.                              *)
THEOREM OneRetryChain == Spec => []SingleRetryChain
<1>1. Init => ChainInv
  BY ChainInit DEF Init
<1>2. TypeOK /\ TypeOK' /\ ChainInv /\ [Next]_vars => ChainInv'
  BY ChainStep
<1>3. ChainInv => SingleRetryChain
  BY DEF ChainInv
<1> QED BY <1>1, <1>2, <1>3, TypeCorrect, PTL DEF Spec

-----------------------------------------------------------------------------
(* What the catch-up covers                                                *)

(* Logs are known only once they are mined, and a catch-up's block numbers  *)
(* stay within the chain: this is what lets blocks be mined under it.       *)
InChain(s) ==
    /\ s.batch \subseteq logs
    /\ s.at \in {"fetch", "process", "save"} => s.start <= head + 1
    /\ s.at \in {"fetch", "process"} =>
         s.from <= s.latest /\ s.to <= s.latest /\ s.latest <= head
    /\ s.at = "save" => s.from <= head + 1

Mined ==
    /\ \A l \in logs : l.block <= head
    /\ \A n \in Net : wire[n] \subseteq logs
    /\ \A t \in tasks : t.log \in logs

CoverInv ==
    /\ Mined
    /\ OffsetWithinChain
    /\ \A n \in Net : InChain(setup[n]) /\ Covers(setup[n])

(* No step makes a handled log unhandled.                                   *)
LEMMA HandledGrows ==
    ASSUME TypeOK, [Next]_vars
    PROVE  \A l \in Log : handled[l] > 0 => handled'[l] > 0
<1> USE DEF TypeOK
<1>1. ASSUME NEW m \in Log, handled' = [handled EXCEPT ![m] = @ + 1]
      PROVE  \A l \in Log : handled[l] > 0 => handled'[l] > 0
  BY <1>1
<1>2. CASE UNCHANGED handled
  BY <1>2
<1>3. ASSUME NEW n \in Net, CatchUpStep(n)
      PROVE  \A l \in Log : handled[l] > 0 => handled'[l] > 0
  BY <1>1, <1>2, <1>3 DEF CatchUpStep, ChainsRead, Ready, GotHead, GotLogs, HandleBatched, BatchDone,
                          Throws, SaveOffset, Subscribe
<1>4. ASSUME NEW n \in Net, SocketStep(n) PROVE UNCHANGED handled
  BY <1>4 DEF SocketStep, SocketOpens, SocketCloses, RetryFires, Receive
<1>5. ASSUME NEW t \in tasks, TaskStep(t)
      PROVE  \A l \in Log : handled[l] > 0 => handled'[l] > 0
  BY <1>1, <1>2, <1>5 DEF TaskStep, TaskHandles, TaskSaves, TaskSaveFails, Task
<1>6. Faults => UNCHANGED handled
  BY DEF Faults, ChainsFail, HeadFails, LogsFail, SaveFails, Restart, Crash, Boot
<1> QED BY <1>2, <1>3, <1>4, <1>5, <1>6 DEF Next, Mine, DoomedExit, Boot, vars

(* Blocks and their logs come by mining alone.                              *)
LEMMA OnlyMineAddsLogs == [Next]_vars => Mine \/ UNCHANGED <<head, logs>>
<1>1. \A n \in Net : CatchUpStep(n) => UNCHANGED <<head, logs>>
  BY DEF CatchUpStep, ChainsRead, Ready, GotHead, GotLogs, HandleBatched, BatchDone, Throws,
         SaveOffset, Subscribe, chainVars
<1>2. \A n \in Net : SocketStep(n) => UNCHANGED <<head, logs>>
  BY DEF SocketStep, SocketOpens, SocketCloses, RetryFires, Receive, chainVars
<1>3. \A t \in tasks : TaskStep(t) => UNCHANGED <<head, logs>>
  BY DEF TaskStep, TaskHandles, TaskSaves, TaskSaveFails, chainVars
<1>4. Faults => UNCHANGED <<head, logs>>
  BY DEF Faults, ChainsFail, HeadFails, LogsFail, SaveFails, Restart, Crash, Boot, chainVars
<1> QED BY <1>1, <1>2, <1>3, <1>4 DEF Next, DoomedExit, Boot, vars, chainVars

(* Nothing is covered, and nothing is claimed to be, at the start.          *)
LEMMA CoverInit == Init => CoverInv
<1> SUFFICES ASSUME Init PROVE CoverInv
  OBVIOUS
<1>1. \A n \in Net : setup[n].at = "idle" /\ setup[n].batch = {} /\ wire[n] = {} /\ mem[n] = 0
  BY StartedShape, NoSetupType DEF Init
<1> QED BY <1>1, BoundsAssumption DEF Init, CoverInv, Mined, OffsetWithinChain, InChain, Covers

(* What is claimed of a setup is not disturbed by steps of others, by       *)
(* blocks that are mined or by logs that are handled.                      *)
LEMMA ClaimsStay ==
    ASSUME TypeOK, CoverInv, [Next]_vars, NEW s \in Setup, InChain(s), Covers(s)
    PROVE  InChain(s)' /\ Covers(s)'
<1>t. /\ head \in Nat /\ logs \subseteq Log /\ s.start \in Nat /\ s.from \in Nat /\ s.to \in Nat
      /\ s.latest \in Nat /\ \A l \in Log : l.block \in Nat
  BY LogType, SetupType DEF TypeOK
<1>h. \A l \in Log : handled[l] > 0 => handled'[l] > 0
  BY HandledGrows
<1>1. CASE UNCHANGED <<head, logs>>
  BY <1>1, <1>t, <1>h DEF InChain, Covers
<1>2. CASE Mine
  <2>1. PICK new \in SUBSET Log : /\ logs' = logs \union new
                                  /\ \A l \in new : l.block = head + 1
                                  /\ head' = head + 1
    BY <1>2, MineShape
  <2>2. InChain(s)'
    BY <2>1, <1>t DEF InChain
  <2>3. \A l \in logs' : l.block <= head => l \in logs
    BY <2>1, <1>t
  <2>4. Covers(s)'
    BY <2>1, <2>3, <1>h, <1>t DEF Covers, InChain
  <2> QED BY <2>2, <2>4
<1> QED BY <1>1, <1>2, OnlyMineAddsLogs

(* A setup that goes on keeps the claims if it goes on with them; the       *)
(* offset it may leave in its network is within the chain.                 *)
LEMMA CoverGoesOn ==
    ASSUME TypeOK, CoverInv, [Next]_vars, NEW n \in Net, NEW r \in Setup, GoesOn(n, r),
           InChain(r)', Covers(r)', UNCHANGED <<head, logs, dbOffset, wire, tasks>>
    PROVE  CoverInv'
<1>1. ASSUME NEW m \in Net PROVE InChain(setup[m])' /\ Covers(setup[m])'
  <2>1. CASE m = n
    <3>1. setup'[m] = r
      BY <2>1 DEF GoesOn, TypeOK
    <3> QED BY <3>1 DEF InChain, Covers
  <2>2. CASE m # n
    <3>1. PICK s \in Setup : s = setup[m]
      BY DEF TypeOK
    <3>2. InChain(s)' /\ Covers(s)'
      BY <3>1, ClaimsStay DEF CoverInv
    <3>3. setup'[m] = s
      BY <2>2, <3>1 DEF GoesOn, TypeOK
    <3> QED BY <3>2, <3>3 DEF InChain, Covers
  <2> QED BY <2>1, <2>2
<1>2. Mined'
  BY DEF CoverInv, Mined
<1>3. OffsetWithinChain'
  <2>1. \A m \in Net : mem'[m] = mem[m] \/ (r.at = "save" /\ mem'[m] = r.from)
    BY SetupType DEF GoesOn, TypeOK
  <2>2. r.at = "save" => r.from <= head' + 1
    BY DEF InChain
  <2> QED BY <2>1, <2>2 DEF CoverInv, OffsetWithinChain
<1> QED BY <1>1, <1>2, <1>3 DEF CoverInv

(* A step that ends setups or begins them keeps the claims.                 *)
LEMMA CoverElse ==
    ASSUME TypeOK, CoverInv, [Next]_vars, Mined', OffsetWithinChain', UNCHANGED <<head, logs>>,
           \A m \in Net : \/ setup'[m] = setup[m]
                          \/ /\ setup'[m].at \in {"idle", "head", "subscribe"}
                             /\ setup'[m].batch \subseteq setup[m].batch
    PROVE  CoverInv'
<1>1. ASSUME NEW m \in Net PROVE InChain(setup[m])' /\ Covers(setup[m])'
  <2>1. PICK s \in Setup : s = setup[m]
    BY DEF TypeOK
  <2>2. InChain(s) /\ InChain(s)' /\ Covers(s)'
    BY <2>1, ClaimsStay DEF CoverInv
  <2>3. CASE setup'[m] = s
    BY <2>2, <2>3 DEF InChain, Covers
  <2>4. CASE setup'[m].at \in {"idle", "head", "subscribe"} /\ setup'[m].batch \subseteq s.batch
    BY <2>2, <2>4 DEF InChain, Covers
  <2> QED BY <2>1, <2>3, <2>4
<1> QED BY <1>1 DEF CoverInv

(* Each step of a catch-up that goes on keeps what it claims of its range.  *)
LEMMA CoverCatchUp ==
    ASSUME TypeOK, CoverInv, [Next]_vars, NEW n \in Net,
           \/ GotHead(n) \/ HeadFails(n) \/ GotLogs(n) \/ LogsFail(n) \/ BatchDone(n)
           \/ (\E l \in Log : HandleBatched(n, l))
    PROVE  CoverInv'
<1> DEFINE s == setup[n]
<1>s. s \in Setup
  BY DEF TypeOK
<1>t. /\ head \in Nat /\ logs \subseteq Log /\ s.start \in Nat /\ s.from \in Nat /\ s.to \in Nat
      /\ s.latest \in Nat /\ s.kind \in {1, 2, 3}
      /\ \A l \in Log : l.block \in Nat /\ l.kind \in {1, 2, 3}
  BY <1>s, LogType, SetupType DEF TypeOK
<1>i. InChain(s) /\ Covers(s)
  BY DEF CoverInv
<1>h. \A l \in Log : handled[l] > 0 => handled'[l] > 0
  BY HandledGrows
<1>u. UNCHANGED <<head, logs, dbOffset, wire, tasks>>
  BY DEF GotHead, HeadFails, GotLogs, LogsFail, BatchDone, HandleBatched, chainVars, socketVars
<1>c. ASSUME NEW r \in Setup, GoesOn(n, r), InChain(r), Covers(r) PROVE CoverInv'
  BY <1>c, <1>u, ClaimsStay, CoverGoesOn
<1> HIDE DEF s
<1>1. CASE GotHead(n)
  <2>1. PICK start \in Nat, r \in Setup :
             /\ GoesOn(n, r)
             /\ start = IF mem[s.cat] # 0 THEN mem[s.cat] ELSE head
             /\ r.from = start /\ r.start = start /\ r.latest = head /\ r.batch = s.batch
             /\ \/ /\ r.at = "fetch" /\ start <= head
                   /\ r.kind = 1 /\ r.to \in Nat /\ start <= r.to /\ r.to <= head
                \/ r.at = "save" /\ start > head
    BY <1>1, GotHeadShape DEF s
  <2>2. start <= head + 1
    <3>1. mem[s.cat] <= head + 1
      BY <1>s, SetupType DEF CoverInv, OffsetWithinChain
    <3> QED BY <2>1, <3>1, <1>t
  <2>3. InChain(r)
    BY <2>1, <2>2, <1>i, <1>t DEF InChain
  <2>4. Covers(r)
    BY <2>1, <1>t DEF Covers
  <2> QED BY <2>1, <2>3, <2>4, <1>c
<1>2. CASE HeadFails(n)
  <2>1. PICK r \in Setup : GoesOn(n, r) /\ r.at = "subscribe" /\ r.batch = s.batch
    BY <1>2, HeadFailsShape DEF s
  <2> QED BY <2>1, <1>c, <1>i DEF InChain, Covers
<1>3. CASE GotLogs(n)
  <2>1. PICK r \in Setup :
             /\ s.at = "fetch" /\ GoesOn(n, r)
             /\ r.at = "process" /\ r.batch = RangeLogs(s)
             /\ r.start = s.start /\ r.from = s.from /\ r.to = s.to
             /\ r.latest = s.latest /\ r.kind = s.kind
    BY <1>3, GotLogsShape DEF s
  <2>2. InChain(r)
    BY <2>1, <1>i DEF InChain, RangeLogs
  <2>3. Covers(r)
    BY <2>1, <1>i, <1>t DEF Covers, RangeLogs
  <2> QED BY <2>1, <2>2, <2>3, <1>c
<1>4. CASE LogsFail(n)
  <2>1. PICK r \in Setup :
             /\ s.at = "fetch" /\ GoesOn(n, r)
             /\ r.at = "save" /\ r.batch = s.batch /\ r.start = s.start /\ r.from = s.from
    BY <1>4, LogsFailShape DEF s
  <2>2. InChain(r)
    BY <2>1, <1>i, <1>t DEF InChain
  <2>3. Covers(r)
    BY <2>1, <1>i, <1>t DEF Covers
  <2> QED BY <2>1, <2>2, <2>3, <1>c
<1>5. CASE BatchDone(n)
  <2>1. PICK r \in Setup :
             /\ s.at = "process" /\ s.batch = {}
             /\ GoesOn(n, r)
             /\ r.batch = {} /\ r.start = s.start /\ r.latest = s.latest
             /\ \/ /\ s.kind = 3 /\ r.from = s.to + 1
                   /\ \/ /\ r.at = "fetch" /\ s.to + 1 <= s.latest
                         /\ r.kind = 1 /\ r.to \in Nat
                         /\ r.from <= r.to /\ r.to <= s.latest
                      \/ r.at = "save" /\ s.to + 1 > s.latest
                \/ /\ s.kind # 3 /\ r.at = "fetch" /\ r.kind = s.kind + 1
                   /\ r.from = s.from /\ r.to = s.to
    BY <1>5, BatchDoneShape DEF s
  <2>2. InChain(r)
    BY <2>1, <1>i, <1>t DEF InChain
  <2>3. s.kind = 3 => \A l \in logs : s.start <= l.block /\ l.block < s.to + 1 => handled[l] > 0
    BY <2>1, <1>i, <1>t DEF Covers
  <2>4. Covers(r)
    <3>1. CASE s.kind = 3
      BY <2>1, <2>3, <3>1, <1>t DEF Covers
    <3>2. CASE s.kind # 3
      BY <2>1, <3>2, <1>i, <1>t DEF Covers
    <3> QED BY <3>1, <3>2
  <2> QED BY <2>1, <2>2, <2>4, <1>c
<1>6. ASSUME NEW m \in Log, HandleBatched(n, m) PROVE CoverInv'
  <2>1. PICK r \in Setup :
             /\ s.at = "process" /\ GoesOn(n, r)
             /\ r.at = "process" /\ r.batch = s.batch \ {m}
             /\ r.start = s.start /\ r.from = s.from /\ r.to = s.to
             /\ r.latest = s.latest /\ r.kind = s.kind
    BY <1>6, HandleBatchedShape DEF s
  <2>2. handled'[m] > 0
    BY <1>6 DEF HandleBatched, TypeOK
  <2>3. InChain(r)'
    BY <2>1, <1>u, <1>i DEF InChain
  <2>4. Covers(r)'
    BY <2>1, <2>2, <1>u, <1>h, <1>i, <1>t DEF Covers
  <2> QED BY <2>1, <2>3, <2>4, <1>u, CoverGoesOn
<1> QED BY <1>1, <1>2, <1>3, <1>4, <1>5, <1>6

(* Every step keeps what a catch-up claims of its range.                    *)
LEMMA CoverStep == TypeOK /\ CoverInv /\ [Next]_vars => CoverInv'
<1> SUFFICES ASSUME TypeOK, CoverInv, [Next]_vars PROVE CoverInv'
  OBVIOUS
<1>t. /\ head \in Nat /\ logs \subseteq Log /\ \A l \in Log : l.block \in Nat
      /\ \A n \in Net : setup[n] \in Setup
      /\ \A t \in tasks : t.log \in Log /\ t.net \in Net
  BY LogType DEF TypeOK, Task
<1>i. Mined /\ OffsetWithinChain
  BY DEF CoverInv
<1>1. CASE Mine
  <2>1. PICK new \in SUBSET Log :
             /\ logs' = logs \union new
             /\ \A l \in new : l.block = head + 1
             /\ wire' = [n \in Net |-> IF conn[n] = "open" THEN wire[n] \union new ELSE wire[n]]
             /\ head' = head + 1
    BY <1>1, MineShape
  <2>2. UNCHANGED <<dbOffset, mem, setup, tasks>>
    BY <1>1 DEF Mine
  <2>3. Mined'
    BY <2>1, <2>2, <1>i, <1>t DEF Mined
  <2>4. OffsetWithinChain'
    BY <2>1, <2>2, <1>i, <1>t DEF OffsetWithinChain, TypeOK
  <2>5. ASSUME NEW m \in Net PROVE InChain(setup[m])' /\ Covers(setup[m])'
    <3>1. PICK s \in Setup : s = setup[m]
      BY <1>t
    <3>2. InChain(s)' /\ Covers(s)'
      BY <3>1, ClaimsStay DEF CoverInv
    <3> QED BY <2>2, <3>1, <3>2 DEF InChain, Covers
  <2> QED BY <2>3, <2>4, <2>5 DEF CoverInv
<1>2. ASSUME NEW n \in Net, CatchUpStep(n) PROVE CoverInv'
  <2>1. CASE ChainsRead(n)
    <3>1. /\ UNCHANGED <<head, logs, dbOffset, setup, wire, tasks>>
          /\ \A m \in Net : mem'[m] \in {mem[m], dbOffset}
      BY <2>1 DEF ChainsRead, TypeOK, chainVars, socketVars
    <3> QED BY <3>1, <1>i, CoverElse DEF Mined, OffsetWithinChain
  <2>2. CASE Ready(n)
    <3>1. /\ UNCHANGED <<head, logs, dbOffset, mem, tasks>>
          /\ \A m \in Net : wire'[m] \subseteq wire[m]
          /\ \A m \in Net : setup'[m] = setup[m] \/ (setup'[m].at = "head" /\ setup'[m].batch = {})
      BY <2>2, FreshSetupType DEF Ready, CloseSlot, TypeOK, chainVars
    <3> QED BY <3>1, <1>i, CoverElse DEF Mined, OffsetWithinChain
  <2>3. CASE Throws(n)
    <3>1. /\ UNCHANGED <<head, logs, dbOffset, mem, tasks, wire>>
          /\ \A m \in Net : setup'[m] = setup[m] \/ (setup'[m].at = "idle" /\ setup'[m].batch = {})
      BY <2>3, NoSetupType DEF Throws, Rejects, TypeOK, chainVars, socketVars
    <3> QED BY <3>1, <1>i, CoverElse DEF Mined, OffsetWithinChain
  <2>4. CASE SaveOffset(n)
    <3>1. /\ UNCHANGED <<head, logs, mem, tasks, wire>> /\ dbOffset' = setup[n].from
          /\ setup[n].at = "save"
          /\ \A m \in Net : \/ setup'[m] = setup[m]
                            \/ setup'[m].at = "subscribe" /\ setup'[m].batch = setup[m].batch
      <4>1. PICK r \in Setup :
                 /\ setup[n].at = "save" /\ dbOffset' = setup[n].from
                 /\ setup' = [setup EXCEPT ![n] = r]
                 /\ r.at = "subscribe" /\ r.batch = setup[n].batch
        BY <2>4, SaveOffsetShape
      <4> QED BY <2>4, <4>1 DEF SaveOffset, TypeOK, chainVars, socketVars
    <3>2. dbOffset' <= head + 1
      BY <3>1 DEF CoverInv, InChain
    <3> QED BY <3>1, <3>2, <1>i, CoverElse DEF Mined, OffsetWithinChain
  <2>5. CASE Subscribe(n)
    <3>1. /\ UNCHANGED <<head, logs, dbOffset, mem, tasks, wire>>
          /\ \A m \in Net : setup'[m] = setup[m] \/ (setup'[m].at = "idle" /\ setup'[m].batch = {})
      BY <2>5, NoSetupType DEF Subscribe, TypeOK, chainVars
    <3> QED BY <3>1, <1>i, CoverElse DEF Mined, OffsetWithinChain
  <2> QED BY <1>2, <2>1, <2>2, <2>3, <2>4, <2>5, CoverCatchUp DEF CatchUpStep
<1>3. ASSUME NEW n \in Net, SocketStep(n) PROVE CoverInv'
  <2>1. CASE SocketOpens(n)
    BY <2>1, <1>i, CoverElse DEF SocketOpens, Mined, OffsetWithinChain, chainVars
  <2>2. CASE SocketCloses(n)
    <3>1. /\ UNCHANGED <<head, logs, dbOffset, mem, setup, tasks>>
          /\ \A m \in Net : wire'[m] \subseteq wire[m]
      BY <2>2 DEF SocketCloses, TypeOK, chainVars
    <3> QED BY <3>1, <1>i, CoverElse DEF Mined, OffsetWithinChain
  <2>3. CASE RetryFires(n)
    <3>1. /\ UNCHANGED <<head, logs, dbOffset, mem, tasks>>
          /\ \A m \in Net : wire'[m] \subseteq wire[m]
          /\ \A m \in Net : setup'[m] = setup[m] \/ (setup'[m].at = "head" /\ setup'[m].batch = {})
      BY <2>3, FreshSetupType DEF RetryFires, CloseSlot, TypeOK, chainVars
    <3> QED BY <3>1, <1>i, CoverElse DEF Mined, OffsetWithinChain
  <2>4. ASSUME NEW l \in Log, Receive(n, l) PROVE CoverInv'
    <3>1. /\ UNCHANGED <<head, logs, dbOffset, mem, setup>>
          /\ \A m \in Net : wire'[m] \subseteq wire[m]
          /\ \A t \in tasks' : t \in tasks \/ t.log = l
          /\ l \in wire[n]
      BY <2>4 DEF Receive, TypeOK, chainVars
    <3> QED BY <3>1, <1>i, CoverElse DEF Mined, OffsetWithinChain
  <2> QED BY <1>3, <2>1, <2>2, <2>3, <2>4 DEF SocketStep
<1>4. ASSUME NEW t \in tasks, TaskStep(t) PROVE CoverInv'
  <2>1. t.log \in logs /\ t.log.block + 1 <= head + 1 /\ t.net \in Net
    BY <1>i, <1>t DEF Mined
  <2>2. CASE TaskHandles(t)
    <3>1. /\ UNCHANGED <<head, logs, dbOffset, setup, wire>>
          /\ \A m \in Net : mem'[m] \in {mem[m], t.log.block + 1}
      BY <2>1, <2>2 DEF TaskHandles, TypeOK, chainVars, socketVars
    <3>2. \A u \in tasks' : u \in tasks \/ u.log = t.log
      BY <2>2 DEF TaskHandles, TypeOK, Task
    <3> QED BY <2>1, <3>1, <3>2, <1>i, CoverElse DEF Mined, OffsetWithinChain
  <2>3. CASE TaskSaves(t) \/ TaskSaveFails(t)
    <3>1. /\ UNCHANGED <<head, logs, mem, setup, wire>> /\ tasks' \subseteq tasks
          /\ dbOffset' \in {dbOffset, t.log.block + 1}
      BY <2>3 DEF TaskSaves, TaskSaveFails, chainVars, socketVars
    <3> QED BY <2>1, <3>1, <1>i, CoverElse DEF Mined, OffsetWithinChain
  <2> QED BY <1>4, <2>2, <2>3 DEF TaskStep
<1>5. CASE Boot
  <2>1. /\ UNCHANGED <<head, logs, dbOffset>> /\ tasks' = {}
        /\ \A m \in Net : /\ wire'[m] = {} /\ mem'[m] = 0
                          /\ setup'[m].at = "idle" /\ setup'[m].batch = {}
    BY <1>5, StartedShape, NoSetupType DEF Boot, chainVars
  <2> QED BY <2>1, <1>i, <1>t, CoverElse DEF Mined, OffsetWithinChain
<1>6. CASE Faults
  <2>1. ASSUME NEW n \in Net, ChainsFail(n) PROVE CoverInv'
    BY <2>1, <1>i, CoverElse DEF ChainsFail, Mined, OffsetWithinChain, chainVars, socketVars
  <2>2. ASSUME NEW n \in Net, SaveFails(n) PROVE CoverInv'
    <3>1. /\ UNCHANGED <<head, logs, mem, tasks, wire>> /\ dbOffset' \in {dbOffset, setup[n].from}
          /\ setup[n].at = "save"
          /\ \A m \in Net : setup'[m] = setup[m] \/ (setup'[m].at = "idle" /\ setup'[m].batch = {})
      BY <2>2, NoSetupType DEF SaveFails, Rejects, TypeOK, chainVars, socketVars
    <3>2. dbOffset' <= head + 1
      BY <3>1, <1>i DEF CoverInv, InChain, OffsetWithinChain
    <3> QED BY <3>1, <3>2, <1>i, CoverElse DEF Mined, OffsetWithinChain
  <2>3. CASE Restart
    <3>1. UNCHANGED <<head, logs, dbOffset, setup, tasks>>
      BY <2>3 DEF Restart, chainVars
    <3>2. \A m \in Net : wire'[m] \subseteq wire[m]
      BY <2>3 DEF Restart, CloseSlot, TypeOK, socketVars
    <3>3. \A m \in Net : mem'[m] \in {mem[m], 0}
      BY <2>3 DEF Restart
    <3> QED BY <3>1, <3>2, <3>3, <1>i, <1>t, CoverElse DEF Mined, OffsetWithinChain
  <2> QED BY <1>5, <1>6, <2>1, <2>2, <2>3, CoverCatchUp DEF Faults, Crash
<1>7. CASE UNCHANGED vars
  BY <1>7, <1>i, CoverElse DEF vars, Mined, OffsetWithinChain
<1> QED BY <1>1, <1>2, <1>3, <1>4, <1>5, <1>6, <1>7 DEF Next, DoomedExit

(* So the claims hold always.                                               *)
LEMMA CoverAlways == Spec => []CoverInv
<1>1. Init => CoverInv
  BY CoverInit
<1>2. TypeOK /\ TypeOK' /\ CoverInv /\ [Next]_vars => CoverInv'
  BY CoverStep
<1> QED BY <1>1, <1>2, TypeCorrect, PTL DEF Spec

(* A running catch-up has handled every log between the block it started    *)
(* from and the block it is at, and every kind it is done with.            *)
THEOREM CatchUpIsComplete == Spec => []CatchUpCovers
<1>1. CoverInv => CatchUpCovers
  BY DEF CoverInv, CatchUpCovers
<1> QED BY <1>1, CoverAlways, PTL

(* Neither offset runs ahead of the chain.                                 *)
THEOREM OffsetStaysWithinChain == Spec => []OffsetWithinChain
<1>1. CoverInv => OffsetWithinChain
  BY DEF CoverInv
<1> QED BY <1>1, CoverAlways, PTL

-----------------------------------------------------------------------------
(* The poller                                                              *)

(* A poller: the node refuses WebSockets, so the only handlers are those of *)
(* catch-ups, and no offset passes over a log: not the one of a network, not *)
(* the saved one, not the block a running catch-up started from.           *)
Covered(o) == \A l \in logs : FirstOffset <= l.block /\ l.block < o => handled[l] > 0

StartsCovered(s) ==
    s.at \in {"fetch", "process", "save"} => Covered(s.start) /\ s.start >= 1 /\ s.from >= 1

Silent ==
    /\ \A n \in Net : conn[n] # "open" /\ wire[n] = {}
    /\ tasks = {}

OffsetsCovered ==
    /\ dbOffset >= 1 /\ Covered(dbOffset)
    /\ \A n \in Net : phase[n] \in {"read", "live"} => mem[n] >= 1 /\ Covered(mem[n])

PollInv == Silent /\ OffsetsCovered /\ \A n \in Net : StartsCovered(setup[n])

IsPoller == ~WsReachable /\ FirstOffset # 0

(* At the start nothing is passed over that was not handled.                *)
LEMMA PollInit == IsPoller /\ Init => PollInv
<1> SUFFICES ASSUME IsPoller, Init PROVE PollInv
  OBVIOUS
<1>1. \A n \in Net : /\ setup[n].at = "idle" /\ conn[n] = "none" /\ wire[n] = {}
                     /\ phase[n] \in {"none", "asked"}
  BY StartedShape, NoSetupType DEF Init
<1> QED
  BY <1>1, BoundsAssumption
  DEF IsPoller, Init, PollInv, Silent, OffsetsCovered, StartsCovered, Covered

(* A covered offset stays so: logs are handled for good, and those that are *)
(* mined are beyond it.                                                    *)
LEMMA CoveredStays ==
    ASSUME TypeOK, [Next]_vars, NEW o \in Nat, o <= head + 1, Covered(o)
    PROVE  Covered(o)'
<1>t. head \in Nat /\ logs \subseteq Log /\ \A l \in Log : l.block \in Nat
  BY LogType DEF TypeOK
<1>1. CASE UNCHANGED <<head, logs>>
  BY <1>1, <1>t, HandledGrows DEF Covered
<1>2. CASE Mine
  <2>1. PICK new \in SUBSET Log : /\ logs' = logs \union new
                                  /\ \A l \in new : l.block = head + 1
    BY <1>2, MineShape
  <2> QED BY <2>1, <1>t, HandledGrows DEF Covered
<1> QED BY <1>1, <1>2, OnlyMineAddsLogs

(* So does the start of a catch-up.                                         *)
LEMMA StartStays ==
    ASSUME TypeOK, CoverInv, [Next]_vars, NEW s \in Setup, InChain(s), StartsCovered(s)
    PROVE  StartsCovered(s)'
<1>1. CASE s.at \in {"fetch", "process", "save"}
  <2>1. s.start \in Nat /\ s.start <= head + 1 /\ Covered(s.start)
    BY <1>1, SetupType DEF InChain, StartsCovered
  <2>2. PICK o \in Nat : o = s.start
    BY <2>1
  <2>3. Covered(o)'
    BY <2>1, <2>2, CoveredStays
  <2> QED BY <1>1, <2>2, <2>3 DEF StartsCovered, Covered
<1>2. CASE s.at \notin {"fetch", "process", "save"}
  BY <1>2 DEF StartsCovered
<1> QED BY <1>1, <1>2

(* An offset that was covered and is in its place after the step.           *)
LEMMA OffsetsStay ==
    ASSUME TypeOK, TypeOK', CoverInv, OffsetsCovered, [Next]_vars, dbOffset' = dbOffset,
           \A m \in Net : phase'[m] \in {"read", "live"} =>
             mem'[m] = dbOffset \/ (phase[m] \in {"read", "live"} /\ mem'[m] = mem[m])
    PROVE  OffsetsCovered'
<1>1. ASSUME NEW o \in Nat, o <= head + 1, Covered(o), o >= 1 PROVE Covered(o)'
  BY <1>1, CoveredStays
<1>2. PICK d \in Nat : d = dbOffset
  BY DEF TypeOK
<1>3. d <= head + 1 /\ d >= 1 /\ Covered(d)
  BY <1>2 DEF CoverInv, OffsetWithinChain, OffsetsCovered, Covered
<1>4. Covered(d)'
  BY <1>1, <1>3
<1>5. ASSUME NEW m \in Net, phase'[m] \in {"read", "live"} PROVE mem'[m] >= 1 /\ Covered(mem[m])'
  <2>1. CASE mem'[m] = d
    BY <1>3, <1>4, <2>1 DEF Covered
  <2>2. CASE phase[m] \in {"read", "live"} /\ mem'[m] = mem[m]
    <3>1. PICK o \in Nat : o = mem[m]
      BY DEF TypeOK
    <3>2. o >= 1 /\ o <= head + 1 /\ Covered(o)
      BY <2>2, <3>1 DEF OffsetsCovered, Covered, CoverInv, OffsetWithinChain
    <3>3. Covered(o)'
      BY <1>1, <3>2
    <3> QED BY <2>2, <3>1, <3>2, <3>3 DEF Covered
  <2> QED BY <1>2, <1>5, <2>1, <2>2
<1> QED BY <1>2, <1>3, <1>4, <1>5 DEF OffsetsCovered, Covered

(* A setup that ends, begins or is left alone.                              *)
LEMMA PollElse ==
    ASSUME TypeOK, CoverInv, PollInv, [Next]_vars, Silent', OffsetsCovered',
           \A m \in Net : setup'[m] = setup[m] \/ setup'[m].at \in {"idle", "head", "subscribe"}
    PROVE  PollInv'
<1>1. ASSUME NEW m \in Net PROVE StartsCovered(setup[m])'
  <2>1. PICK s \in Setup : s = setup[m]
    BY DEF TypeOK
  <2>2. StartsCovered(s)'
    BY <2>1, StartStays DEF CoverInv, PollInv
  <2> QED BY <2>1, <2>2 DEF StartsCovered, Covered
<1> QED BY <1>1 DEF PollInv

(* A setup that goes on from a covered start, and leaves a covered offset.  *)
LEMMA PollGoesOn ==
    ASSUME TypeOK, TypeOK', CoverInv, PollInv, [Next]_vars, NEW n \in Net, NEW r \in Setup, GoesOn(n, r),
           r.at \in {"fetch", "process", "save"} => Covered(r.start) /\ r.start >= 1 /\ r.from >= 1,
           r.at = "save" => Covered(r.from),
           UNCHANGED <<head, logs, dbOffset, phase, conn, wire, tasks>>
    PROVE  PollInv'
<1>t. logs \subseteq Log /\ \A l \in Log : handled[l] > 0 => handled'[l] > 0
  BY HandledGrows DEF TypeOK
<1>c. \A o : Covered(o) => Covered(o)'
  BY <1>t DEF Covered
<1>1. ASSUME NEW m \in Net PROVE StartsCovered(setup[m])'
  <2>1. CASE m = n
    <3>1. setup'[m] = r
      BY <2>1 DEF GoesOn, TypeOK
    <3> QED BY <3>1, <1>c DEF StartsCovered
  <2>2. CASE m # n
    <3>1. setup'[m] = setup[m]
      BY <2>2 DEF GoesOn, TypeOK
    <3> QED BY <3>1, <1>c DEF StartsCovered, PollInv
  <2> QED BY <2>1, <2>2
<1>2. OffsetsCovered'
  <2>1. \A m \in Net : mem'[m] = mem[m] \/ (r.at = "save" /\ mem'[m] = r.from)
    BY SetupType DEF GoesOn, TypeOK
  <2>2. Covered(dbOffset)' /\ dbOffset' >= 1
    BY <1>c DEF PollInv, OffsetsCovered
  <2>3. ASSUME NEW m \in Net, phase'[m] \in {"read", "live"} PROVE mem'[m] >= 1 /\ Covered(mem[m])'
    <3>1. CASE mem'[m] = mem[m]
      <4>1. mem[m] >= 1 /\ Covered(mem[m])
        BY <2>3 DEF PollInv, OffsetsCovered
      <4> QED BY <3>1, <4>1, <1>c
    <3>2. CASE r.at = "save" /\ mem'[m] = r.from
      BY <3>2, <1>c
    <3> QED BY <2>1, <3>1, <3>2
  <2> QED BY <2>2, <2>3 DEF OffsetsCovered
<1>3. Silent'
  BY DEF PollInv, Silent
<1> QED BY <1>1, <1>2, <1>3 DEF PollInv

(* Each step of a catch-up that goes on keeps the offsets covered.          *)
LEMMA PollCatchUp ==
    ASSUME IsPoller, TypeOK, TypeOK', CoverInv, PollInv, [Next]_vars, NEW n \in Net,
           \/ GotHead(n) \/ HeadFails(n) \/ GotLogs(n) \/ LogsFail(n) \/ BatchDone(n)
           \/ (\E l \in Log : HandleBatched(n, l))
    PROVE  PollInv'
<1> DEFINE s == setup[n]
<1>s. s \in Setup
  BY DEF TypeOK
<1>t. /\ head \in Nat /\ logs \subseteq Log /\ s.start \in Nat /\ s.from \in Nat /\ s.to \in Nat
      /\ s.latest \in Nat /\ s.kind \in {1, 2, 3} /\ s.cat \in Net /\ FirstOffset \in Nat
      /\ \A l \in Log : l.block \in Nat /\ l.kind \in {1, 2, 3}
  BY <1>s, LogType, SetupType, BoundsAssumption DEF TypeOK
<1>i. InChain(s) /\ Covers(s) /\ StartsCovered(s)
  BY DEF CoverInv, PollInv
<1>u. UNCHANGED <<head, logs, dbOffset, phase, conn, wire, tasks>>
  BY DEF GotHead, HeadFails, GotLogs, LogsFail, BatchDone, HandleBatched, chainVars, networkVars,
         socketVars
<1> HIDE DEF s
(* From a covered start up to where the catch-up has covered.              *)
<1>f. s.at \in {"fetch", "process", "save"} => Covered(s.from)
  BY <1>i, <1>t DEF Covers, StartsCovered, Covered
<1>1. CASE GotHead(n)
  <2>1. PICK start \in Nat, r \in Setup :
             /\ GoesOn(n, r) /\ phase[s.cat] = "live"
             /\ start = IF mem[s.cat] # 0 THEN mem[s.cat] ELSE head
             /\ r.from = start /\ r.start = start
    BY <1>1, GotHeadShape DEF s
  <2>2. mem[s.cat] >= 1 /\ Covered(mem[s.cat]) /\ mem[s.cat] \in Nat
    BY <2>1, <1>t DEF PollInv, OffsetsCovered, TypeOK
  <2>3. start = mem[s.cat]
    BY <2>1, <2>2
  <2> QED BY <2>1, <2>2, <2>3, <1>u, PollGoesOn
<1>2. CASE HeadFails(n)
  <2>1. PICK r \in Setup : GoesOn(n, r) /\ r.at = "subscribe"
    BY <1>2, HeadFailsShape
  <2> QED BY <2>1, <1>u, PollGoesOn
<1>3. CASE GotLogs(n)
  <2>1. PICK r \in Setup : /\ s.at = "fetch" /\ GoesOn(n, r) /\ r.at = "process"
                           /\ r.start = s.start /\ r.from = s.from
    BY <1>3, GotLogsShape DEF s
  <2> QED BY <2>1, <1>i, <1>u, PollGoesOn DEF StartsCovered
<1>4. CASE LogsFail(n)
  <2>1. PICK r \in Setup : /\ s.at = "fetch" /\ GoesOn(n, r) /\ r.at = "save"
                           /\ r.start = s.start /\ r.from = s.from
    BY <1>4, LogsFailShape DEF s
  <2>2. Covered(s.start) /\ s.start >= 1 /\ s.from >= 1 /\ Covered(s.from)
    BY <2>1, <1>i, <1>f DEF StartsCovered
  <2> QED BY <2>1, <2>2, <1>u, PollGoesOn
<1>5. CASE BatchDone(n)
  <2>1. PICK r \in Setup :
             /\ s.at = "process" /\ s.batch = {}
             /\ GoesOn(n, r) /\ r.start = s.start
             /\ \/ s.kind = 3 /\ r.from = s.to + 1
                \/ r.from = s.from /\ r.at = "fetch"
    BY <1>5, BatchDoneShape DEF s
  <2>2. Covered(s.start) /\ s.start >= 1 /\ s.from >= 1 /\ Covered(s.from)
    BY <2>1, <1>i, <1>f DEF StartsCovered
  <2>3. s.kind = 3 => Covered(s.to + 1)
    BY <2>1, <2>2, <1>i, <1>t DEF Covers, Covered
  <2>4. r.from >= 1 /\ (r.at = "save" => Covered(r.from))
    BY <2>1, <2>2, <2>3, <1>t
  <2> QED BY <2>1, <2>2, <2>4, <1>u, PollGoesOn
<1>6. ASSUME NEW m \in Log, HandleBatched(n, m) PROVE PollInv'
  <2>1. PICK r \in Setup : /\ s.at = "process" /\ GoesOn(n, r) /\ r.at = "process"
                           /\ r.start = s.start /\ r.from = s.from
    BY <1>6, HandleBatchedShape DEF s
  <2> QED BY <2>1, <1>i, <1>u, PollGoesOn DEF StartsCovered
<1> QED BY <1>1, <1>2, <1>3, <1>4, <1>5, <1>6

(* The row takes an offset a setup has covered, or keeps its own.           *)
LEMMA PollSaves ==
    ASSUME TypeOK, TypeOK', CoverInv, PollInv, NEW n \in Net, setup[n].at = "save",
           dbOffset' \in {dbOffset, setup[n].from},
           UNCHANGED <<head, logs, handled, phase, mem>>
    PROVE  OffsetsCovered'
<1> DEFINE s == setup[n]
<1>t. /\ s \in Setup /\ logs \subseteq Log /\ \A l \in Log : l.block \in Nat
      /\ s.start \in Nat /\ s.from \in Nat /\ FirstOffset \in Nat
  BY LogType, SetupType, BoundsAssumption DEF TypeOK
<1>1. Covers(s) /\ StartsCovered(s) /\ s.at = "save"
  BY DEF CoverInv, PollInv
<1> HIDE DEF s
<1>2. Covered(s.from) /\ s.from >= 1
  BY <1>1, <1>t DEF Covers, StartsCovered, Covered
<1>3. \A o : Covered(o) => Covered(o)'
  BY DEF Covered
<1>4. Covered(dbOffset') /\ dbOffset' >= 1
  BY <1>2 DEF PollInv, OffsetsCovered, s
<1> QED BY <1>3, <1>4 DEF PollInv, OffsetsCovered

(* Every step of an indexer that polls keeps it so.                         *)
LEMMA PollStep ==
    ASSUME IsPoller, TypeOK, TypeOK', CoverInv, PollInv, [Next]_vars
    PROVE  PollInv'
<1>p. ~WsReachable
  BY DEF IsPoller
<1>i. Silent /\ OffsetsCovered /\ (\A n \in Net : conn[n] # "open" /\ wire[n] = {}) /\ tasks = {}
  BY DEF PollInv, Silent
<1>o. UNCHANGED <<dbOffset, phase, mem>> => OffsetsCovered'
  BY <1>i, OffsetsStay
<1>1. CASE Mine
  <2>1. UNCHANGED <<dbOffset, phase, mem, setup, conn, tasks>>
    BY <1>1 DEF Mine, networkVars
  <2>2. \A n \in Net : wire'[n] = wire[n]
    BY <1>1, <1>i, MineShape DEF TypeOK
  <2>3. Silent'
    BY <2>1, <2>2, <1>i DEF Silent
  <2> QED BY <2>1, <2>3, <1>o, PollElse
<1>2. ASSUME NEW n \in Net, CatchUpStep(n) PROVE PollInv'
  <2>1. CASE ChainsRead(n)
    <3>1. /\ UNCHANGED <<dbOffset, setup, conn, wire, tasks>>
          /\ \A m \in Net : \/ mem'[m] = dbOffset
                            \/ phase'[m] = phase[m] /\ mem'[m] = mem[m]
      BY <2>1 DEF ChainsRead, TypeOK, socketVars
    <3> QED BY <3>1, <1>i, OffsetsStay, PollElse DEF Silent
  <2>2. CASE Ready(n)
    <3>1. /\ UNCHANGED <<dbOffset, mem, tasks>> /\ phase[n] = "read"
          /\ \A m \in Net : m = n \/ phase'[m] = phase[m]
          /\ \A m \in Net : conn'[m] # "open" /\ wire'[m] = {}
          /\ \A m \in Net : setup'[m] = setup[m] \/ setup'[m].at = "head"
      BY <2>2, <1>i, FreshSetupType DEF Ready, CloseSlot, TypeOK
    <3> QED BY <3>1, <1>i, OffsetsStay, PollElse DEF Silent
  <2>3. CASE Throws(n)
    <3>1. /\ UNCHANGED <<dbOffset, phase, mem, tasks, conn, wire>>
          /\ \A m \in Net : setup'[m] = setup[m] \/ setup'[m].at = "idle"
      BY <2>3, NoSetupType DEF Throws, Rejects, TypeOK, networkVars, socketVars
    <3> QED BY <3>1, <1>i, <1>o, PollElse DEF Silent
  <2>4. CASE SaveOffset(n)
    <3>1. /\ UNCHANGED <<head, logs, handled, phase, mem, tasks, conn, wire>>
          /\ dbOffset' = setup[n].from /\ setup[n].at = "save"
          /\ \A m \in Net : setup'[m] = setup[m] \/ setup'[m].at = "subscribe"
      <4>1. PICK r \in Setup :
                 /\ setup[n].at = "save" /\ dbOffset' = setup[n].from
                 /\ setup' = [setup EXCEPT ![n] = r] /\ r.at = "subscribe"
        BY <2>4, SaveOffsetShape
      <4> QED BY <2>4, <4>1 DEF SaveOffset, TypeOK, chainVars, networkVars, socketVars
    <3>2. OffsetsCovered'
      BY <3>1, PollSaves
    <3> QED BY <3>1, <3>2, <1>i, PollElse DEF Silent
  <2>5. CASE Subscribe(n)
    <3>1. /\ UNCHANGED <<dbOffset, phase, mem, tasks, wire>>
          /\ \A m \in Net : conn'[m] # "open"
          /\ \A m \in Net : setup'[m] = setup[m] \/ setup'[m].at = "idle"
      BY <2>5, <1>i, NoSetupType DEF Subscribe, TypeOK, networkVars
    <3> QED BY <3>1, <1>i, <1>o, PollElse DEF Silent
  <2> QED BY <1>2, <2>1, <2>2, <2>3, <2>4, <2>5, PollCatchUp DEF CatchUpStep
<1>3. ASSUME NEW n \in Net, SocketStep(n) PROVE PollInv'
  <2>1. CASE SocketCloses(n)
    <3>1. /\ UNCHANGED <<dbOffset, phase, mem, tasks, setup>>
          /\ \A m \in Net : conn'[m] # "open" /\ wire'[m] = {}
      BY <2>1, <1>i DEF SocketCloses, TypeOK, networkVars
    <3> QED BY <3>1, <1>i, <1>o, PollElse DEF Silent
  <2>2. CASE RetryFires(n)
    <3>1. /\ UNCHANGED <<dbOffset, phase, mem, tasks>>
          /\ \A m \in Net : conn'[m] # "open" /\ wire'[m] = {}
          /\ \A m \in Net : setup'[m] = setup[m] \/ setup'[m].at = "head"
      BY <2>2, <1>i, FreshSetupType DEF RetryFires, CloseSlot, TypeOK, networkVars
    <3> QED BY <3>1, <1>i, <1>o, PollElse DEF Silent
  <2> QED BY <1>3, <1>p, <1>i, <2>1, <2>2 DEF SocketStep, SocketOpens, Receive
<1>4. ASSUME NEW t \in tasks, TaskStep(t) PROVE PollInv'
  BY <1>i
<1>5. CASE Boot
  <2>1. /\ UNCHANGED dbOffset /\ tasks' = {}
        /\ \A m \in Net : /\ wire'[m] = {} /\ conn'[m] = "none" /\ phase'[m] \in {"none", "asked"}
                          /\ setup'[m].at = "idle"
    BY <1>5, StartedShape, NoSetupType DEF Boot
  <2>2. OffsetsCovered'
    BY <2>1, <1>i, OffsetsStay
  <2> QED BY <2>1, <2>2, PollElse DEF Silent
<1>6. CASE Faults
  <2>1. ASSUME NEW n \in Net, ChainsFail(n) PROVE PollInv'
    <3>1. /\ UNCHANGED <<dbOffset, setup, conn, wire, tasks, mem>>
          /\ \A m \in Net : phase'[m] = "failed" \/ phase'[m] = phase[m]
      BY <2>1 DEF ChainsFail, TypeOK, socketVars
    <3> QED BY <3>1, <1>i, OffsetsStay, PollElse DEF Silent
  <2>2. ASSUME NEW n \in Net, SaveFails(n) PROVE PollInv'
    <3>1. /\ UNCHANGED <<head, logs, handled, phase, mem, tasks, conn, wire>>
          /\ dbOffset' \in {dbOffset, setup[n].from} /\ setup[n].at = "save"
          /\ \A m \in Net : setup'[m] = setup[m] \/ setup'[m].at = "idle"
      BY <2>2, NoSetupType DEF SaveFails, Rejects, TypeOK, chainVars, networkVars, socketVars
    <3>2. OffsetsCovered'
      BY <3>1, PollSaves
    <3> QED BY <3>1, <3>2, <1>i, PollElse DEF Silent
  <2>3. CASE Restart
    <3>1. UNCHANGED <<dbOffset, setup, tasks>>
      BY <2>3 DEF Restart
    <3>2. \A m \in Net : conn'[m] # "open" /\ wire'[m] = {}
      BY <2>3, <1>i DEF Restart, CloseSlot, TypeOK, socketVars
    <3>3. \A m \in Net : phase'[m] \in {"asked", "released"} \/ (phase'[m] = phase[m] /\ mem'[m] = mem[m])
      BY <2>3 DEF Restart
    <3> QED BY <3>1, <3>2, <3>3, <1>i, OffsetsStay, PollElse DEF Silent
  <2> QED BY <1>5, <1>6, <2>1, <2>2, <2>3, PollCatchUp DEF Faults, Crash
<1>7. CASE UNCHANGED vars
  BY <1>7, <1>i, <1>o, PollElse DEF vars, Silent
<1> QED BY <1>1, <1>2, <1>3, <1>4, <1>5, <1>6, <1>7 DEF Next, DoomedExit

(* When the node refuses WebSockets and the chain row had an offset at the  *)
(* first start, the saved offset never passes over a log, whatever crashes, *)
(* restarts and failed calls interrupt.                                    *)
THEOREM PollerSkipsNothing == IsPoller /\ Spec => []NothingSkipped
<1>1. IsPoller /\ Init => PollInv
  BY PollInit
<1>2. IsPoller /\ TypeOK /\ TypeOK' /\ CoverInv /\ PollInv /\ [Next]_vars => PollInv'
  BY PollStep
<1>3. PollInv => NothingSkipped
  BY DEF PollInv, OffsetsCovered, Covered, NothingSkipped
<1>4. IsPoller => []IsPoller
  <2>1. IsPoller => IsPoller'
    BY DEF IsPoller
  <2> QED BY <2>1, PTL
<1> QED BY <1>1, <1>2, <1>3, <1>4, TypeCorrect, CoverAlways, PTL DEF Spec

-----------------------------------------------------------------------------
(* No repetition. As long as nothing fails there is the network of the boot  *)
(* and no other.                                                           *)

Faultless == \A s \in FaultSort : used[s] = 0

FirstOnly ==
    /\ phase[1] \in {"asked", "read", "live"}
    /\ \A n \in Net \ {1} : phase[n] = "none"
    /\ phase[1] = "live" => current = 1
    /\ phase[1] # "live" => \A l \in Log : handled[l] = 0
    /\ conn[1] # "closing" /\ ~doomed

(* A pushed log is on the wire, at one handler or handled, and only while    *)
(* the connection that brought it is open.                                 *)
PushedOnce ==
    /\ conn[1] = "open" => WsReachable
    /\ conn[1] # "open" => wire[1] = {} /\ tasks = {}
    /\ \A l \in wire[1] : handled[l] = 0 /\ \A t \in tasks : t.log # l
    /\ \A n \in Net \ {1} : wire[n] = {}
    /\ \A t \in tasks : t.net = 1 /\ (t.at = "process" => handled[t.log] = 0)
    /\ \A t, u \in tasks : t.log = u.log => t = u

(* The logs of its range that a catch-up has handed over, and those of the   *)
(* ranges before: all that was handled.                                     *)
HandedOver(s, l) ==
    \/ l.block < s.from
    \/ /\ s.from <= l.block /\ l.block <= s.to
       /\ \/ l.kind < s.kind
          \/ l.kind = s.kind /\ s.at = "process" /\ l \notin s.batch

FetchedOnce(s) ==
    s.at \in {"fetch", "process"} =>
        /\ s.from <= s.to
        /\ \A l \in Log : handled[l] > 0 => HandedOver(s, l)
        /\ s.at = "process" =>
             \A l \in s.batch : l.kind = s.kind /\ s.from <= l.block /\ l.block <= s.to

(* What was handled is behind the offset from which the next one starts.    *)
BehindOffset ==
    setup[1].at \notin {"fetch", "process"} /\ conn[1] # "open" =>
        \A l \in Log : handled[l] > 0 => l.block < mem[1]

HandledOnce == \A l \in Log : handled[l] <= 1 /\ (handled[l] > 0 => l \in logs)

OnceState == FirstOnly /\ HandledOnce /\ PushedOnce /\ FetchedOnce(setup[1]) /\ BehindOffset
OnceInv == Faultless => OnceState

(* Nothing is handled at the start.                                         *)
LEMMA OnceInit == Init => OnceInv
<1> SUFFICES ASSUME Init PROVE OnceState
  BY DEF OnceInv
<1>1. /\ \A n \in Net : wire[n] = {} /\ conn[n] = "none"
                        /\ phase[n] = IF n = 1 THEN "asked" ELSE "none"
      /\ setup[1].at = "idle" /\ \A l \in Log : handled[l] = 0
  BY StartedShape, NoSetupType, FirstNet DEF Init
<1> QED
  BY <1>1, FirstNet
  DEF Init, OnceState, FirstOnly, HandledOnce, PushedOnce, FetchedOnce, BehindOffset

(* The setup of the boot's network goes on: it has no socket yet, so that   *)
(* nothing was pushed, and the offset it may set is behind nothing handled. *)
LEMMA OnceGoesOn ==
    ASSUME TypeOK, ChainInv, OnceState, NEW r \in Setup, GoesOn(1, r), setup[1].at # "idle",
           r.cat = setup[1].cat,
           UNCHANGED <<logs, phase, current, conn, wire, tasks, doomed>>,
           HandledOnce', FetchedOnce(r)',
           r.at \in {"fetch", "process", "save"},
           r.at = "save" => \A l \in Log : handled'[l] > 0 => l.block < r.from
    PROVE  OnceState'
<1>1. phase[1] = "live" /\ current = 1 /\ r.cat = 1 /\ conn[1] = "none"
  <2>1. phase[1] = "live" /\ current = 1
    BY FirstNet DEF OnceState, FirstOnly, ChainInv
  <2>2. timers[1] \in Nat /\ Links(1) <= 1
    BY <2>1, FirstNet DEF TypeOK, ChainInv, SingleRetryChain, AtMostOneLink
  <2> QED BY <2>1, <2>2 DEF Links, ChainInv
<1>2. setup'[1] = r /\ (r.at = "save" => mem'[1] = r.from)
  BY <1>1, FirstNet DEF GoesOn, TypeOK
<1>3. FirstOnly'
  BY <1>1 DEF OnceState, FirstOnly
<1>4. PushedOnce'
  BY <1>1 DEF OnceState, PushedOnce
<1>5. FetchedOnce(setup[1])'
  BY <1>2 DEF FetchedOnce, HandedOver
<1>6. BehindOffset'
  BY <1>2 DEF BehindOffset
<1> QED BY <1>3, <1>4, <1>5, <1>6 DEF OnceState

(* Each step of a catch-up keeps what is still to be handled apart from what *)
(* was.                                                                     *)
LEMMA OnceCatchUp ==
    ASSUME TypeOK, ChainInv, CoverInv, OnceState,
           \/ GotHead(1) \/ GotLogs(1) \/ BatchDone(1) \/ (\E l \in Log : HandleBatched(1, l))
    PROVE  OnceState'
<1> DEFINE s == setup[1]
<1>s. 1 \in Net /\ s \in Setup
  BY FirstNet DEF TypeOK
<1>t. /\ head \in Nat /\ logs \subseteq Log /\ s.start \in Nat /\ s.from \in Nat /\ s.to \in Nat
      /\ s.latest \in Nat /\ s.kind \in {1, 2, 3} /\ handled \in [Log -> Nat]
      /\ \A l \in Log : l.block \in Nat \ {0} /\ l.kind \in {1, 2, 3}
  BY <1>s, LogType, SetupType DEF TypeOK
<1>u. UNCHANGED <<logs, phase, current, conn, wire, tasks, doomed>>
  BY DEF GotHead, GotLogs, BatchDone, HandleBatched, chainVars, networkVars, socketVars
<1>i. FetchedOnce(s) /\ HandledOnce /\ InChain(s)
  BY <1>s DEF OnceState, CoverInv
<1> HIDE DEF s
<1>1. CASE GotHead(1)
  <2>1. PICK start \in Nat, r \in Setup :
             /\ s.at = "head" /\ phase[s.cat] = "live" /\ GoesOn(1, r)
             /\ start = IF mem[s.cat] # 0 THEN mem[s.cat] ELSE head
             /\ r.from = start /\ r.cat = s.cat
             /\ \/ r.at = "fetch" /\ r.kind = 1 /\ r.to \in Nat /\ start <= r.to
                \/ r.at = "save"
    BY <1>1, <1>s, GotHeadShape DEF s
  <2>2. conn[1] # "open"
    <3>1. phase[1] = "live" => Links(1) <= 1
      BY <1>s DEF ChainInv, SingleRetryChain, AtMostOneLink
    <3>2. phase[1] = "live" /\ timers[1] \in Nat
      BY <2>1, <1>s DEF OnceState, FirstOnly, ChainInv, s, TypeOK
    <3> QED BY <2>1, <3>1, <3>2 DEF Links, s
  <2>3. s.cat = 1
    BY <2>1, <1>s DEF OnceState, FirstOnly, ChainInv, s
  <2>4. \A l \in Log : handled[l] > 0 => l.block < mem[1]
    BY <2>1, <2>2 DEF OnceState, BehindOffset, s
  <2>5. \A l \in Log : handled[l] > 0 => l.block < start
    BY <1>s, <1>t, <2>1, <2>3, <2>4 DEF TypeOK
  <2>6. UNCHANGED handled
    BY <1>1 DEF GotHead
  <2>7. FetchedOnce(r)' /\ HandledOnce'
    BY <2>1, <2>5, <2>6, <1>i, <1>u DEF FetchedOnce, HandedOver, HandledOnce
  <2> QED BY <1>u, <2>1, <2>5, <2>6, <2>7, OnceGoesOn DEF s
<1>2. CASE GotLogs(1)
  <2>1. PICK r \in Setup :
             /\ s.at = "fetch" /\ GoesOn(1, r)
             /\ r.at = "process" /\ r.batch = RangeLogs(s) /\ r.cat = s.cat
             /\ r.from = s.from /\ r.to = s.to /\ r.kind = s.kind
    BY <1>2, <1>s, GotLogsShape DEF s
  <2>2. UNCHANGED handled
    BY <1>2 DEF GotLogs
  <2>3. ASSUME NEW l \in Log, handled[l] > 0
        PROVE  HandedOver(r, l)
    BY <1>i, <1>t, <2>1, <2>3 DEF FetchedOnce, HandedOver, RangeLogs
  <2>4. \A l \in r.batch : l.kind = r.kind /\ r.from <= l.block /\ l.block <= r.to
    BY <2>1 DEF RangeLogs
  <2>5. FetchedOnce(r)' /\ HandledOnce'
    BY <1>i, <1>u, <2>1, <2>2, <2>3, <2>4 DEF FetchedOnce, HandedOver, HandledOnce
  <2> QED BY <1>u, <2>1, <2>5, OnceGoesOn DEF s
<1>3. CASE BatchDone(1)
  <2>1. PICK r \in Setup :
             /\ s.at = "process" /\ s.batch = {} /\ GoesOn(1, r) /\ r.cat = s.cat
             /\ \/ /\ s.kind = 3 /\ r.from = s.to + 1
                   /\ \/ r.at = "fetch" /\ r.kind = 1 /\ r.to \in Nat /\ r.from <= r.to
                      \/ r.at = "save"
                \/ /\ s.kind # 3 /\ r.at = "fetch" /\ r.kind = s.kind + 1
                   /\ r.from = s.from /\ r.to = s.to
    BY <1>3, <1>s, BatchDoneShape DEF s
  <2>2. UNCHANGED handled
    BY <1>3 DEF BatchDone
  <2>3. s.kind = 3 => \A l \in Log : handled[l] > 0 => l.block < s.to + 1
    BY <1>i, <1>t, <2>1 DEF FetchedOnce, HandedOver
  <2>4. ASSUME NEW l \in Log, handled[l] > 0, r.at = "fetch"
        PROVE  HandedOver(r, l)
    <3>1. CASE s.kind = 3
      BY <1>t, <2>1, <2>3, <2>4, <3>1 DEF HandedOver
    <3>2. CASE s.kind # 3
      BY <1>i, <1>t, <2>1, <2>4, <3>2 DEF FetchedOnce, HandedOver
    <3> QED BY <3>1, <3>2
  <2>5. r.at = "fetch" => r.from <= r.to
    BY <1>i, <2>1 DEF FetchedOnce
  <2>6. r.at \in {"fetch", "save"} /\ (r.at = "save" => s.kind = 3 /\ r.from = s.to + 1)
    BY <2>1
  <2>7. FetchedOnce(r)' /\ HandledOnce'
    BY <1>i, <1>u, <2>2, <2>4, <2>5, <2>6 DEF FetchedOnce, HandedOver, HandledOnce
  <2> QED BY <1>u, <2>1, <2>2, <2>3, <2>6, <2>7, OnceGoesOn DEF s
<1>4. ASSUME NEW m \in Log, HandleBatched(1, m) PROVE OnceState'
  <2>1. PICK r \in Setup :
             /\ s.at = "process" /\ m \in s.batch /\ GoesOn(1, r)
             /\ r.at = "process" /\ r.batch = s.batch \ {m} /\ r.cat = s.cat
             /\ r.from = s.from /\ r.to = s.to /\ r.kind = s.kind
    BY <1>4, <1>s, HandleBatchedShape DEF s
  <2>2. handled' = [handled EXCEPT ![m] = @ + 1]
    BY <1>4 DEF HandleBatched
  <2>3. m \in logs /\ m.kind = s.kind /\ s.from <= m.block /\ m.block <= s.to
    BY <1>i, <2>1 DEF InChain, FetchedOnce
  <2>4. handled[m] = 0
    <3>1. ~HandedOver(s, m)
      BY <1>t, <2>1, <2>3 DEF HandedOver
    <3> QED BY <1>i, <1>t, <2>1, <3>1 DEF FetchedOnce
  <2>5. HandledOnce'
    BY <1>i, <1>t, <1>u, <2>2, <2>3, <2>4 DEF HandledOnce
  <2>6. ASSUME NEW l \in Log, handled'[l] > 0
        PROVE  HandedOver(r, l)
    BY <1>i, <1>t, <2>1, <2>2, <2>3, <2>6 DEF FetchedOnce, HandedOver
  <2>7. FetchedOnce(r)'
    BY <1>i, <2>1, <2>6 DEF FetchedOnce, HandedOver
  <2> QED BY <1>u, <2>1, <2>5, <2>7, OnceGoesOn DEF s
<1> QED BY <1>1, <1>2, <1>3, <1>4

(* As long as nothing fails, so does every step.                            *)
LEMMA OnceStep ==
    ASSUME TypeOK, TypeOK', ChainInv, CoverInv, OnceInv, [Next]_vars
    PROVE  OnceInv'
<1> SUFFICES ASSUME Faultless' PROVE OnceState'
  BY DEF OnceInv
<1>f. Faultless
  BY FaultsStay DEF Faultless
<1>i. OnceState /\ FirstOnly /\ HandledOnce /\ PushedOnce /\ FetchedOnce(setup[1]) /\ BehindOffset
  BY <1>f DEF OnceInv, OnceState
<1>t. /\ 1 \in Net /\ head \in Nat /\ logs \subseteq Log /\ wire[1] \subseteq Log
      /\ tasks \subseteq Task /\ handled \in [Log -> Nat] /\ setup[1] \in Setup
      /\ \A l \in Log : l.block \in Nat \ {0}
      /\ \A t \in Task : t.log \in Log /\ t.at \in {"process", "save"}
  BY FirstNet, LogType DEF TypeOK, Task
(* The other networks are not there yet.                                    *)
<1>o. \A n \in Net \ {1} : /\ phase[n] = "none" /\ setup[n].at = "idle" /\ conn[n] = "none"
                           /\ timers[n] = 0 /\ wire[n] = {}
  BY <1>i DEF FirstOnly, PushedOnce, ChainInv, SingleRetryChain, AtMostOneLink
(* A setup excludes a connection and a retry, a retry the other two.        *)
<1>c. /\ setup[1].at # "idle" => conn[1] = "none" /\ timers[1] = 0
      /\ timers[1] > 0 => conn[1] = "none" /\ setup[1].at = "idle" /\ phase[1] = "live"
      /\ conn[1] # "none" => setup[1].at = "idle" /\ timers[1] = 0
      /\ setup[1].at # "idle" \/ conn[1] # "none" => phase[1] = "live" /\ current = 1
      /\ setup[1].at # "idle" => setup[1].cat = 1
  <2>1. phase[1] # "live" => setup[1].at = "idle" /\ conn[1] = "none" /\ timers[1] = 0
    BY <1>t, <1>i DEF FirstOnly, ChainInv, SingleRetryChain, AtMostOneLink
  <2>2. phase[1] = "live" => current = 1 /\ Links(1) <= 1
    BY <1>t, <1>i DEF FirstOnly, ChainInv, SingleRetryChain, AtMostOneLink
  <2>3. timers[1] \in Nat
    BY <1>t DEF TypeOK
  <2>4. phase[1] = "live" =>
          /\ setup[1].at # "idle" => conn[1] = "none" /\ timers[1] = 0
          /\ timers[1] > 0 => conn[1] = "none" /\ setup[1].at = "idle"
          /\ conn[1] # "none" => setup[1].at = "idle" /\ timers[1] = 0
    BY <2>2, <2>3 DEF Links
  <2>5. current = 1 => (setup[1].at # "idle" => setup[1].cat = 1)
    BY DEF ChainInv
  <2> QED BY <2>1, <2>2, <2>4, <2>5
<1>x. ASSUME NEW f \in FaultSort, NEW b, Spend(f, b) PROVE FALSE
  BY <1>f, <1>x DEF Spend, Faultless, TypeOK
<1>1. CASE Mine
  <2>1. PICK new \in SUBSET Log :
          /\ logs' = logs \union new /\ \A l \in new : l.block = head + 1
          /\ wire' = [n \in Net |-> IF conn[n] = "open" THEN wire[n] \union new ELSE wire[n]]
    BY <1>1, MineShape
  <2>2. UNCHANGED <<mem, setup, conn, tasks, doomed, handled, phase, current>>
    BY <1>1 DEF Mine, networkVars
  <2>3. \A l \in new : l \notin logs /\ handled[l] = 0 /\ \A t \in tasks : t.log # l
    BY <1>t, <1>i, <2>1 DEF HandledOnce, CoverInv, Mined
  <2>4. HandledOnce'
    BY <1>i, <2>1, <2>2 DEF HandledOnce
  <2>5. /\ wire'[1] = IF conn[1] = "open" THEN wire[1] \union new ELSE wire[1]
        /\ \A n \in Net \ {1} : wire'[n] = {}
    BY <1>t, <1>o, <2>1
  <2>6. PushedOnce'
    BY <1>i, <2>2, <2>3, <2>5 DEF PushedOnce
  <2> QED
    BY <1>i, <2>2, <2>4, <2>6 DEF OnceState, FirstOnly, FetchedOnce, HandedOver, BehindOffset
<1>2. ASSUME NEW n \in Net, CatchUpStep(n) PROVE OnceState'
  <2>0. n = 1
    <3>1. n # 1 => phase[n] = "none" /\ setup[n].at = "idle"
      BY <1>o
    <3>2. CatchUpStep(n) => phase[n] \in {"asked", "read"} \/ setup[n].at # "idle"
      BY DEF CatchUpStep, ChainsRead, Ready, GotHead, GotLogs, HandleBatched, BatchDone, Throws,
             SaveOffset, Subscribe
    <3> QED BY <1>2, <3>1, <3>2
  <2>1. CASE ChainsRead(1)
    <3>1. /\ phase[1] = "asked" /\ phase' = [phase EXCEPT ![1] = "read"]
          /\ UNCHANGED <<logs, setup, conn, wire, tasks, doomed, handled>>
      BY <2>1 DEF ChainsRead, chainVars, socketVars
    <3>2. \A l \in Log : handled'[l] = 0
      BY <1>i, <3>1 DEF FirstOnly
    <3>3. phase'[1] = "read" /\ \A m \in Net \ {1} : phase'[m] = "none"
      BY <1>t, <1>o, <3>1 DEF TypeOK
    <3> QED
      BY <1>i, <3>1, <3>2, <3>3
      DEF OnceState, FirstOnly, HandledOnce, PushedOnce, FetchedOnce, BehindOffset, HandedOver
  <2>2. CASE Ready(1)
    <3>1. /\ phase[1] = "read" /\ phase' = [phase EXCEPT ![1] = "live"] /\ current' = 1
          /\ UNCHANGED <<logs, mem, tasks, doomed, handled>> /\ CloseSlot(0)
          /\ setup'[1].at = "head"
      BY <1>t, <2>2, FreshSetupType DEF Ready, TypeOK, chainVars
    <3>2. \A m \in Net : conn'[m] = "none" /\ wire'[m] = {}
      BY <1>o, <1>c, <1>i, <3>1 DEF CloseSlot, PushedOnce
    <3>3. phase'[1] = "live" /\ \A m \in Net \ {1} : phase'[m] = "none"
      BY <1>t, <1>o, <3>1 DEF TypeOK
    <3>4. \A l \in Log : handled'[l] = 0
      BY <1>i, <3>1 DEF FirstOnly
    <3>5. tasks = {}
      BY <1>c, <1>i, <3>1 DEF PushedOnce
    <3> QED
      BY <1>i, <1>t, <3>1, <3>2, <3>3, <3>4, <3>5
      DEF OnceState, FirstOnly, HandledOnce, PushedOnce, FetchedOnce, BehindOffset
  <2>3. CASE Throws(1)
    BY <1>c, <2>3 DEF Throws, Usable
  <2>4. CASE SaveOffset(1) \/ Subscribe(1)
    <3>1. /\ setup[1].at \in {"save", "subscribe"} /\ setup'[1].at \in {"idle", "subscribe"}
          /\ conn[1] = "none" /\ conn'[1] \in {"none", "connecting"}
          /\ UNCHANGED <<logs, phase, current, mem, wire, tasks, doomed, handled>>
      <4>1. CASE SaveOffset(1)
        <5>1. PICK r \in Setup : setup' = [setup EXCEPT ![1] = r] /\ r.at = "subscribe"
          BY <1>t, <4>1, SaveOffsetShape
        <5> QED BY <1>t, <1>c, <4>1, <5>1 DEF SaveOffset, TypeOK, chainVars, networkVars, socketVars
      <4>2. CASE Subscribe(1)
        BY <1>t, <1>c, <4>2, NoSetupType DEF Subscribe, TypeOK, chainVars, networkVars
      <4> QED BY <2>4, <4>1, <4>2
    <3>2. HandledOnce' /\ FetchedOnce(setup[1])' /\ FirstOnly'
      BY <1>i, <3>1 DEF HandledOnce, FetchedOnce, FirstOnly
    <3>3. PushedOnce'
      BY <1>i, <3>1 DEF PushedOnce
    <3>4. BehindOffset'
      BY <1>i, <3>1 DEF BehindOffset
    <3> QED BY <3>2, <3>3, <3>4 DEF OnceState
  <2> QED BY <1>2, <1>i, <2>0, <2>1, <2>2, <2>3, <2>4, OnceCatchUp DEF CatchUpStep
<1>3. ASSUME NEW n \in Net, SocketStep(n) PROVE OnceState'
  <2>0. n = 1
    BY <1>3, <1>o DEF SocketStep, SocketOpens, SocketCloses, RetryFires, Receive
  <2>1. CASE SocketOpens(1)
    <3>1. /\ conn[1] = "connecting" /\ conn'[1] = "open" /\ WsReachable
          /\ UNCHANGED <<logs, phase, current, mem, setup, wire, tasks, doomed, handled>>
      BY <1>t, <2>1 DEF SocketOpens, TypeOK, chainVars, networkVars
    <3> QED
      BY <1>i, <3>1
      DEF OnceState, FirstOnly, HandledOnce, PushedOnce, FetchedOnce, HandedOver, BehindOffset
  <2>2. CASE SocketCloses(1)
    <3>1. ~WsReachable /\ conn[1] # "open"
      BY <1>x, <1>i, <2>2 DEF SocketCloses, FaultSort, FirstOnly, PushedOnce
    <3>2. /\ conn'[1] = "none" /\ wire'[1] = {} /\ \A m \in Net \ {1} : wire'[m] = wire[m]
          /\ UNCHANGED <<logs, phase, current, mem, setup, tasks, doomed, handled>>
      BY <1>t, <2>2 DEF SocketCloses, TypeOK, chainVars, networkVars
    <3> QED
      BY <1>i, <3>1, <3>2
      DEF OnceState, FirstOnly, HandledOnce, PushedOnce, FetchedOnce, HandedOver, BehindOffset
  <2>3. CASE RetryFires(1)
    <3>1. timers[1] > 0 /\ conn[1] = "none" /\ setup[1].at = "idle" /\ current = 1 /\ phase[1] = "live"
      BY <1>c, <1>i, <2>3 DEF RetryFires, FirstOnly
    <3>2. /\ setup'[1].at = "head" /\ CloseSlot(0)
          /\ UNCHANGED <<logs, phase, current, mem, tasks, doomed, handled>>
      BY <1>t, <2>3, <3>1, FreshSetupType DEF RetryFires, TypeOK, chainVars, networkVars
    <3>3. \A m \in Net : conn'[m] = "none" /\ wire'[m] = {}
      BY <1>o, <1>i, <3>1, <3>2 DEF CloseSlot, PushedOnce
    <3> QED
      BY <1>i, <1>t, <3>1, <3>2, <3>3
      DEF OnceState, FirstOnly, HandledOnce, PushedOnce, FetchedOnce, BehindOffset
  <2>4. ASSUME NEW l \in Log, Receive(1, l) PROVE OnceState'
    <3>1. PICK u : u = [net |-> 1, log |-> l, at |-> "process"]
      OBVIOUS
    <3>2. /\ l \in wire[1] /\ wire'[1] = wire[1] \ {l} /\ tasks' = tasks \union {u}
          /\ \A m \in Net \ {1} : wire'[m] = wire[m]
          /\ UNCHANGED <<logs, phase, current, mem, setup, conn, doomed, handled>>
      BY <1>t, <2>4, <3>1 DEF Receive, TypeOK, chainVars, networkVars
    <3>3. u.log = l /\ u.net = 1 /\ handled[l] = 0 /\ conn[1] = "open" /\ \A t \in tasks : t.log # l
      BY <1>i, <3>1, <3>2 DEF PushedOnce
    <3>4. PushedOnce'
      BY <1>i, <3>2, <3>3 DEF PushedOnce
    <3> QED
      BY <1>i, <3>2, <3>4
      DEF OnceState, FirstOnly, HandledOnce, FetchedOnce, HandedOver, BehindOffset
  <2> QED BY <1>3, <2>0, <2>1, <2>2, <2>3, <2>4 DEF SocketStep
<1>4. ASSUME NEW t \in tasks, TaskStep(t) PROVE OnceState'
  <2>0. conn[1] = "open" /\ phase[1] = "live" /\ setup[1].at = "idle" /\ t.net = 1 /\ t.log \in Log
    BY <1>4, <1>i, <1>c, <1>t DEF PushedOnce
  <2>1. CASE TaskHandles(t)
    <3>1. PICK u : u = [t EXCEPT !.at = "save"]
      OBVIOUS
    <3>2. /\ t.at = "process" /\ tasks' = (tasks \ {t}) \union {u}
          /\ handled' = [handled EXCEPT ![t.log] = @ + 1]
          /\ UNCHANGED <<logs, phase, current, setup, conn, wire, doomed>>
      BY <2>0, <2>1, <3>1 DEF TaskHandles, chainVars, networkVars, socketVars
    <3>3. u.log = t.log /\ u.net = 1 /\ u.at = "save" /\ handled[t.log] = 0 /\ t.log \in logs
      BY <1>i, <1>t, <2>0, <3>1, <3>2 DEF Task, PushedOnce, CoverInv, Mined
    <3>4. HandledOnce'
      BY <1>i, <1>t, <2>0, <3>2, <3>3 DEF HandledOnce
    <3>5. PushedOnce'
      <4>1. \A l \in wire'[1] : handled'[l] = 0 /\ \A v \in tasks' : v.log # l
        BY <1>i, <1>t, <2>0, <3>2, <3>3 DEF PushedOnce
      <4>2. \A v \in tasks' : v.net = 1 /\ (v.at = "process" => handled'[v.log] = 0)
        BY <1>i, <1>t, <2>0, <3>2, <3>3 DEF PushedOnce
      <4>3. \A v, w \in tasks' : v.log = w.log => v = w
        BY <1>i, <3>2, <3>3 DEF PushedOnce
      <4> QED BY <1>i, <2>0, <3>2, <4>1, <4>2, <4>3 DEF PushedOnce
    <3>6. FirstOnly'
      BY <1>i, <2>0, <3>2 DEF FirstOnly
    <3> QED BY <2>0, <3>2, <3>4, <3>5, <3>6 DEF OnceState, FetchedOnce, BehindOffset
  <2>2. CASE TaskSaves(t)
    <3>1. /\ tasks' = tasks \ {t}
          /\ UNCHANGED <<logs, phase, current, mem, setup, conn, wire, doomed, handled>>
      BY <2>2 DEF TaskSaves, chainVars, networkVars, socketVars
    <3>2. PushedOnce'
      BY <1>i, <3>1 DEF PushedOnce
    <3> QED
      BY <1>i, <3>1, <3>2
      DEF OnceState, FirstOnly, HandledOnce, FetchedOnce, HandedOver, BehindOffset
  <2> QED BY <1>4, <1>x, <2>1, <2>2 DEF TaskStep, TaskSaveFails, FaultSort
<1>5. CASE Faults
  BY <1>x, <1>5 DEF Faults, ChainsFail, HeadFails, LogsFail, SaveFails, Restart, Crash, FaultSort
<1>6. CASE DoomedExit
  BY <1>i, <1>6 DEF DoomedExit, FirstOnly
<1>7. CASE UNCHANGED vars
  BY <1>7, <1>i
  DEF vars, OnceState, FirstOnly, HandledOnce, PushedOnce, FetchedOnce, HandedOver, BehindOffset
<1> QED BY <1>1, <1>2, <1>3, <1>4, <1>5, <1>6, <1>7 DEF Next

(* As long as nothing failed or restarted, no log is handled twice: the      *)
(* catch-ups of the retries begin where the last one ended, and a range and *)
(* a subscription never bring the same log.                                *)
THEOREM NoRepetition == Spec => []OnceWithoutFaults
<1>1. OnceInv => OnceWithoutFaults
  BY DEF OnceInv, OnceState, HandledOnce, Faultless, OnceWithoutFaults
<1>2. TypeOK /\ TypeOK' /\ ChainInv /\ CoverInv /\ OnceInv /\ [Next]_vars => OnceInv'
  BY OnceStep
<1>3. Spec => []ChainInv
  <2>1. Init => ChainInv
    BY ChainInit DEF Init
  <2>2. TypeOK /\ TypeOK' /\ ChainInv /\ [Next]_vars => ChainInv'
    BY ChainStep
  <2> QED BY <2>1, <2>2, TypeCorrect, PTL DEF Spec
<1> QED BY <1>1, <1>2, <1>3, OnceInit, TypeCorrect, CoverAlways, PTL DEF Spec

(***************************************************************************)
(* The polling indexer implements the safety half of LogDelivery, for every *)
(* block range, chain, and number of faults. The invariants above say that  *)
(* every offset the code may save is covered; what is left is that a step   *)
(* mines, handles one log, or saves such an offset.                         *)
(***************************************************************************)

(* At the start nothing is delivered.                                       *)
LEMMA DeliveryInit == Init => D!Init
BY DEF Init, D!Init

(* A block that is mined is one by which the chain grows.                   *)
LEMMA GrowStep ==
    ASSUME TypeOK, Mine
    PROVE  D!Grow
<1>1. PICK new \in SUBSET Log : /\ logs' = logs \union new /\ head' = head + 1
                                /\ \A l \in new : l.block = head + 1
  BY MineShape
<1> QED BY <1>1 DEF Mine, D!Grow

(* One more run of the handler of a log of the chain.                       *)
LEMMA DeliverStep ==
    ASSUME TypeOK, NEW l \in logs, handled' = [handled EXCEPT ![l] = @ + 1],
           UNCHANGED <<head, logs, dbOffset>>
    PROVE  D!Deliver
<1>1. l \in Log /\ handled[l] \in Nat
  BY DEF TypeOK
<1>2. {m \in Log : handled'[m] > 0} = {m \in Log : handled[m] > 0} \union {l}
  BY <1>1 DEF TypeOK
<1> QED BY <1>2 DEF D!Deliver

(* Any other step leaves the offset where it is, or at a covered one.       *)
LEMMA AcknowledgeStep ==
    ASSUME TypeOK, TypeOK', PollInv', CoverInv', UNCHANGED <<head, logs, handled>>
    PROVE  D!Acknowledge
<1>1. dbOffset' \in 1 .. head + 1
  BY DEF TypeOK, PollInv, OffsetsCovered, CoverInv, OffsetWithinChain
<1>2. D!DeliveredUpTo(dbOffset')
  BY DEF TypeOK, PollInv, OffsetsCovered, Covered, D!DeliveredUpTo
<1> QED BY <1>1, <1>2 DEF D!Acknowledge

(* Every step of the indexer is one of the consumer, or changes nothing of  *)
(* it.                                                                      *)
LEMMA DeliveryStep ==
    ASSUME TypeOK, TypeOK', CoverInv, CoverInv', PollInv', [Next]_vars
    PROVE  [D!Next]_(D!vars)
<1>1. CASE Mine
  BY <1>1, GrowStep DEF D!Next
<1>2. ASSUME NEW n \in Net, NEW l \in Log, HandleBatched(n, l) PROVE D!Next
  <2>1. l \in logs
    BY <1>2 DEF HandleBatched, CoverInv, InChain
  <2> QED BY <1>2, <2>1, DeliverStep DEF HandleBatched, chainVars, D!Next
<1>3. ASSUME NEW t \in tasks, TaskHandles(t) PROVE D!Next
  <2>1. t.log \in logs
    BY DEF CoverInv, Mined
  <2> QED BY <1>3, <2>1, DeliverStep DEF TaskHandles, chainVars, D!Next
<1>4. CASE UNCHANGED <<head, logs, handled>>
  BY <1>4, AcknowledgeStep DEF D!Next
<1>5. ASSUME NEW n \in Net, CatchUpStep(n) PROVE [D!Next]_(D!vars)
  BY <1>2, <1>4, <1>5
  DEF CatchUpStep, ChainsRead, Ready, GotHead, GotLogs, BatchDone, Throws, SaveOffset, Subscribe, chainVars
<1>6. ASSUME NEW n \in Net, SocketStep(n) PROVE [D!Next]_(D!vars)
  BY <1>4, <1>6 DEF SocketStep, SocketOpens, SocketCloses, RetryFires, Receive, chainVars
<1>7. ASSUME NEW t \in tasks, TaskStep(t) PROVE [D!Next]_(D!vars)
  BY <1>3, <1>4, <1>7 DEF TaskStep, TaskSaves, TaskSaveFails, chainVars
<1>8. CASE Faults
  BY <1>4, <1>8 DEF Faults, ChainsFail, HeadFails, LogsFail, SaveFails, Restart, Crash, Boot, chainVars
<1> QED
  BY <1>1, <1>4, <1>5, <1>6, <1>7, <1>8 DEF Next, DoomedExit, Boot, vars, chainVars

(* Without WebSockets the indexer, whatever crashes and fails, is an          *)
(* at-least-once consumer of the chain's logs.                              *)
THEOREM PollerImplementsDelivery == IsPoller /\ Spec => D!Safety
<1>1. IsPoller /\ Init => PollInv
  BY PollInit
<1>2. IsPoller /\ TypeOK /\ TypeOK' /\ CoverInv /\ PollInv /\ [Next]_vars => PollInv'
  BY PollStep
<1>3. TypeOK /\ TypeOK' /\ CoverInv /\ CoverInv' /\ PollInv' /\ [Next]_vars => [D!Next]_(D!vars)
  BY DeliveryStep
<1>4. IsPoller => []IsPoller
  <2>1. IsPoller => IsPoller'
    BY DEF IsPoller
  <2> QED BY <2>1, PTL
<1> QED
  BY <1>1, <1>2, <1>3, <1>4, DeliveryInit, TypeCorrect, CoverAlways, PTL DEF Spec, D!Safety

=============================================================================
