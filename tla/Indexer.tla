------------------------------- MODULE Indexer -------------------------------
(***************************************************************************)
(* The blockchain indexer of one chain (BlockchainIndexerService): the     *)
(* HTTP catch-up over block ranges, the WebSocket listener with its        *)
(* concurrent event handlers, the retry timer, the offset kept in memory   *)
(* and in the chain table, restarts by an admin and crashes of the server. *)
(*                                                                         *)
(* A log is its block and its kind; a log is "handled" when the processing *)
(* function of its kind has run on it to the end. What that function does  *)
(* to the database is the subject of MarketLifecycle and Ledger.           *)
(***************************************************************************)
EXTENDS Integers, FiniteSets

CONSTANTS
    BlockRange,     \* chain.blockProcessRange || 50
    FirstHead,      \* the last block of the chain at the first start
    FirstOffset,    \* chain.block_process_offset at the first start; 0 is null
    WsReachable,    \* does the node ever accept a WebSocket connection?
    MaxBlock,       \* bound: blocks mined
    MaxLogs,        \* bound: logs of interest on the chain
    MaxCrashes,     \* bound: crashes of the server process
    MaxRestarts,    \* bound: admin calls of POST blockchain-indexer/restart
    MaxRpcFaults,   \* bound: failures of getBlockNumber or getLogs
    MaxDbFaults,    \* bound: failures of a query of the chain table
    MaxDrops        \* bound: losses of a WebSocket the node accepted or could accept

ASSUME RangeAssumption == BlockRange \in Nat
ASSUME BoundsAssumption ==
    /\ FirstHead \in 1 .. MaxBlock
    /\ FirstOffset \in 0 .. FirstHead + 1
    /\ WsReachable \in BOOLEAN
    /\ MaxBlock \in Nat /\ MaxLogs \in Nat
    /\ MaxCrashes \in Nat /\ MaxRestarts \in Nat /\ MaxRpcFaults \in Nat
    /\ MaxDbFaults \in Nat /\ MaxDrops \in Nat

(* In the order in which a catch-up asks for them: the trades of a range   *)
(* of blocks, then its resolutions, then its redemptions.                  *)
Trade  == 1
Resolve == 2
Redeem == 3
Kind   == {Trade, Resolve, Redeem}
Log    == [block : 1 .. MaxBlock, kind : Kind]

(* The networks there may be since the process started: the one onModuleInit *)
(* makes of the chain's row, and one for each restart.                      *)
Net == 1 .. MaxRestarts + 1

VARIABLES
    (* The chain. *)
    head,       \* number of the last block
    logs,       \* the logs of all blocks
    (* The database. *)
    dbOffset,   \* chain.block_process_offset, 0 for null
    (* The server process. *)
    phase,      \* how far each network is: none, asked, read, live, released, failed
    mem,        \* network.chain.blockProcessOffset of each network
    current,    \* the network in networks, 0 when there is none
    slot,       \* the network whose connection is in websocketNetworks, 0 when none is
    setup,      \* the running setupWebSocketListener of each network, see Setup below
    conn,       \* its connection: none, connecting, open, closing
    wire,       \* logs pushed by the node on it and not received yet
    timers,     \* its scheduled retries (ongoingTimeouts)
    tasks,      \* runs of the WebSocket handlers
    doomed,     \* a rejection nobody handles is on its way: the process will exit
    (* History and budgets. *)
    overlapped, \* a restart began while another was reading the chains
    handled,    \* how often each log was handled
    used        \* faults that have occurred, by sort

chainVars   == <<head, logs>>
networkVars == <<phase, current, overlapped>>
socketVars  == <<slot, conn, wire>>
vars == <<head, logs, dbOffset, phase, mem, current, slot, setup, conn, wire, timers,
          tasks, doomed, overlapped, handled, used>>

(* A run of setupWebSocketListener. "by" tells who awaits it: onModuleInit, *)
(* which catches what it throws, or a timer, which does not. "at" is the    *)
(* await it stands at: getBlockNumber (head), getLogs (fetch), the handlers *)
(* of what getLogs returned (process), the update of the chain row (save),  *)
(* the synchronous end that opens the socket (subscribe). "cat" is the      *)
(* network its checkoutChainLogs found in networks.                        *)
Setup == [by : {"init", "timer"},
          at : {"idle", "head", "fetch", "process", "save", "subscribe"},
          cat : Net, start : Nat, from : Nat, to : Nat, latest : Nat, kind : Kind,
          batch : SUBSET Log]

Task == [net : Net, log : Log, at : {"process", "save"}]

FaultSort == {"crash", "restart", "rpc", "db", "drop"}

FreshSetup(who, n) ==
    [by |-> who, at |-> "head", cat |-> n, start |-> 0, from |-> 0, to |-> 0, latest |-> 0,
     kind |-> Trade, batch |-> {}]

NoSetup == [FreshSetup("init", 1) EXCEPT !.at = "idle"]

(* The process has just started: onModuleInit awaits findChains.           *)
Started ==
    [phase |-> [n \in Net |-> IF n = 1 THEN "asked" ELSE "none"],
     mem |-> [n \in Net |-> 0], setup |-> [n \in Net |-> NoSetup],
     conn |-> [n \in Net |-> "none"], wire |-> [n \in Net |-> {}],
     timers |-> [n \in Net |-> 0]]

Init ==
    /\ head = FirstHead
    /\ logs = {}
    /\ dbOffset = FirstOffset
    /\ phase = Started.phase
    /\ mem = Started.mem
    /\ current = 0
    /\ slot = 0
    /\ setup = Started.setup
    /\ conn = Started.conn
    /\ wire = Started.wire
    /\ timers = Started.timers
    /\ tasks = {}
    /\ doomed = FALSE
    /\ overlapped = FALSE
    /\ handled = [l \in Log |-> 0]
    /\ used = [s \in FaultSort |-> 0]

Spend(sort, bound) == /\ used[sort] < bound
                      /\ used' = [used EXCEPT ![sort] = @ + 1]

-----------------------------------------------------------------------------
(* The chain mines a block; every open subscription is sent its logs.      *)
Mine ==
    /\ head < MaxBlock
    /\ \E ks \in SUBSET Kind :
         LET new == {[block |-> head + 1, kind |-> k] : k \in ks} IN
         /\ Cardinality(logs) + Cardinality(ks) <= MaxLogs
         /\ logs' = logs \union new
         /\ wire' = [n \in Net |-> IF conn[n] = "open" THEN wire[n] \union new ELSE wire[n]]
    /\ head' = head + 1
    /\ UNCHANGED <<dbOffset, networkVars, mem, slot, setup, conn, timers, tasks, doomed,
                   handled, used>>

-----------------------------------------------------------------------------
(* onModuleInit                                                            *)

(* releaseWebsocketProvider: the connection in websocketNetworks is closed  *)
(* and forgotten; logs on their way are lost. Its close listener is not     *)
(* removed, but does nothing on the network "gone", whose chain is null by  *)
(* the time it runs.                                                       *)
CloseSlot(gone) ==
    /\ conn' = [n \in Net |-> IF n = slot /\ conn[n] # "none"
                              THEN IF n = gone THEN "none" ELSE "closing"
                              ELSE conn[n]]
    /\ wire' = [n \in Net |-> IF n = slot THEN {} ELSE wire[n]]
    /\ slot' = 0

(* findChains reads the row of the chain.                                  *)
ChainsRead(n) ==
    /\ phase[n] = "asked"
    /\ phase' = [phase EXCEPT ![n] = "read"]
    /\ mem' = [mem EXCEPT ![n] = dbOffset]
    /\ UNCHANGED <<chainVars, dbOffset, current, socketVars, setup, timers, tasks, doomed,
                   overlapped, handled, used>>

(* findChains fails; onModuleInit catches it, and there is no network.     *)
ChainsFail(n) ==
    /\ phase[n] = "asked"
    /\ Spend("db", MaxDbFaults)
    /\ phase' = [phase EXCEPT ![n] = "failed"]
    /\ UNCHANGED <<chainVars, dbOffset, mem, current, socketVars, setup, timers, tasks,
                   doomed, overlapped, handled>>

(* The row has arrived: its network replaces the one in networks, if        *)
(* another restart has put one there meanwhile, and is set up.             *)
Ready(n) ==
    /\ phase[n] = "read"
    /\ phase' = [phase EXCEPT ![n] = "live"]
    /\ current' = n
    /\ setup' = [setup EXCEPT ![n] = FreshSetup("init", n)]
    /\ CloseSlot(0)
    /\ UNCHANGED <<chainVars, dbOffset, mem, timers, tasks, doomed, overlapped, handled, used>>

-----------------------------------------------------------------------------
(* checkoutChainLogs. An operator named ...Fault is a plausible mistake in  *)
(* the one it precedes; no specification uses it.                          *)

UpTo(from, latest) ==
    IF from + BlockRange < latest THEN from + BlockRange ELSE latest

AfterRangeFault(s) == s.to
AfterRange(s) == s.to + 1

WhenPanickedFault(s) == s.to + 1
WhenPanicked(s) == s.from

KindsDoneFault(s) == s.kind > Redeem
KindsDone(s) == s.kind = Redeem

RangeLogsFault(s) == {l \in logs : l.kind = s.kind /\ s.from <= l.block /\ l.block < s.to}
RangeLogs(s) == {l \in logs : l.kind = s.kind /\ s.from <= l.block /\ l.block <= s.to}

(* The loop's condition: another range, or the final update of the offset.  *)
NextRange(s, from) ==
    IF from <= s.latest
    THEN [s EXCEPT !.at = "fetch", !.from = from, !.kind = Trade, !.to = UpTo(from, s.latest)]
    ELSE [s EXCEPT !.at = "save", !.from = from]

(* A setup goes on as s. The update of the offset, once it is reached,      *)
(* changes the network of the catch-up at once and then the row.           *)
GoesOn(n, s) ==
    /\ setup' = [setup EXCEPT ![n] = s]
    /\ mem' = IF s.at = "save" THEN [mem EXCEPT ![s.cat] = s.from] ELSE mem

(* A setup ends by throwing, which ends the process if a timer runs it.     *)
Rejects(n) ==
    /\ setup' = [setup EXCEPT ![n] = NoSetup]
    /\ doomed' = (doomed \/ setup[n].by = "timer")

(* The network of the catch-up still has its provider and its chain.        *)
Usable(n) == phase[setup[n].cat] = "live"

GotHead(n) ==
    /\ setup[n].at = "head" /\ Usable(n)
    /\ LET offset == mem[setup[n].cat]
           start == IF offset # 0 THEN offset ELSE head
       IN  GoesOn(n, NextRange([setup[n] EXCEPT !.start = start, !.latest = head], start))
    /\ UNCHANGED <<chainVars, dbOffset, networkVars, socketVars, timers, tasks, doomed,
                   handled, used>>

HeadFails(n) ==
    /\ setup[n].at = "head" /\ Usable(n)
    /\ Spend("rpc", MaxRpcFaults)
    /\ GoesOn(n, [setup[n] EXCEPT !.at = "subscribe"])
    /\ UNCHANGED <<chainVars, dbOffset, networkVars, socketVars, timers, tasks, doomed, handled>>

(* getLogs answers. The handlers of what it returned are started also when  *)
(* the network was released meanwhile, but for those of redemptions, which  *)
(* are given network.chain.id.                                             *)
GotLogs(n) ==
    /\ setup[n].at = "fetch"
    /\ Usable(n) \/ setup[n].kind # Redeem
    /\ GoesOn(n, [setup[n] EXCEPT !.at = "process", !.batch = RangeLogs(setup[n])])
    /\ UNCHANGED <<chainVars, dbOffset, networkVars, socketVars, timers, tasks, doomed,
                   handled, used>>

(* getLogs fails: the loop is left, and the offset is set to the start of   *)
(* the range, whatever kinds of its logs were handled already.             *)
LogsFail(n) ==
    /\ setup[n].at = "fetch" /\ Usable(n)
    /\ Spend("rpc", MaxRpcFaults)
    /\ GoesOn(n, [setup[n] EXCEPT !.at = "save", !.from = WhenPanicked(setup[n])])
    /\ UNCHANGED <<chainVars, dbOffset, networkVars, socketVars, timers, tasks, doomed, handled>>

(* One of the concurrent runs of processTradeEventLog or                   *)
(* processGeneralEvent a range waits for; they swallow every error.        *)
HandleBatched(n, l) ==
    /\ setup[n].at = "process"
    /\ l \in setup[n].batch
    /\ handled' = [handled EXCEPT ![l] = @ + 1]
    /\ GoesOn(n, [setup[n] EXCEPT !.batch = @ \ {l}])
    /\ UNCHANGED <<chainVars, dbOffset, networkVars, socketVars, timers, tasks, doomed, used>>

BatchDone(n) ==
    /\ setup[n].at = "process" /\ Usable(n)
    /\ setup[n].batch = {}
    /\ GoesOn(n, IF KindsDone(setup[n])
                 THEN NextRange(setup[n], AfterRange(setup[n]))
                 ELSE [setup[n] EXCEPT !.at = "fetch", !.kind = @ + 1])
    /\ UNCHANGED <<chainVars, dbOffset, networkVars, socketVars, timers, tasks, doomed,
                   handled, used>>

(* The next use of a released network, whose provider and chain are null,   *)
(* throws: at the latest the update of the offset, outside every try.      *)
Throws(n) ==
    /\ setup[n].at \in {"head", "fetch", "process"} /\ ~Usable(n)
    /\ setup[n].batch = {}
    /\ Rejects(n)
    /\ UNCHANGED <<chainVars, dbOffset, networkVars, mem, socketVars, timers, tasks,
                   handled, used>>

SaveOffset(n) ==
    /\ setup[n].at = "save"
    /\ dbOffset' = setup[n].from
    /\ setup' = [setup EXCEPT ![n].at = "subscribe"]
    /\ UNCHANGED <<chainVars, networkVars, mem, socketVars, timers, tasks, doomed,
                   handled, used>>

(* The update of the row fails, or its answer is lost: neither a socket nor *)
(* a retry is made.                                                        *)
SaveFails(n) ==
    /\ setup[n].at = "save"
    /\ Spend("db", MaxDbFaults)
    /\ dbOffset' \in {dbOffset, setup[n].from}
    /\ Rejects(n)
    /\ UNCHANGED <<chainVars, networkVars, mem, socketVars, timers, tasks, handled>>

-----------------------------------------------------------------------------
(* The WebSocket                                                           *)

(* The end of a setup. On a network that was released its first use throws  *)
(* inside the try, and the retry that follows returns at once.              *)
Subscribe(n) ==
    /\ setup[n].at = "subscribe"
    /\ setup' = [setup EXCEPT ![n] = NoSetup]
    /\ IF phase[n] = "live"
       THEN /\ conn' = [conn EXCEPT ![n] = "connecting"]
            /\ slot' = n
       ELSE UNCHANGED <<conn, slot>>
    /\ UNCHANGED <<chainVars, dbOffset, networkVars, mem, wire, timers, tasks, doomed,
                   handled, used>>

SocketOpens(n) ==
    /\ WsReachable
    /\ conn[n] = "connecting"
    /\ conn' = [conn EXCEPT ![n] = "open"]
    /\ UNCHANGED <<chainVars, dbOffset, networkVars, mem, slot, setup, wire, timers, tasks,
                   doomed, handled, used>>

RetriesOnCloseFault(n) == timers
RetriesOnClose(n) == [timers EXCEPT ![n] = @ + 1]

(* The close listener: prepareToRetryRpcConnection schedules a new setup,   *)
(* unless the network was released. What the node pushed and the server has *)
(* not received is lost. (A closed connection still in websocketNetworks is *)
(* as good as none.)                                                       *)
SocketCloses(n) ==
    /\ conn[n] # "none"
    /\ IF WsReachable /\ conn[n] # "closing" THEN Spend("drop", MaxDrops) ELSE UNCHANGED used
    /\ conn' = [conn EXCEPT ![n] = "none"]
    /\ wire' = [wire EXCEPT ![n] = {}]
    /\ slot' = IF slot = n THEN 0 ELSE slot
    /\ timers' = IF phase[n] = "live" THEN RetriesOnClose(n) ELSE timers
    /\ UNCHANGED <<chainVars, dbOffset, networkVars, mem, setup, tasks, doomed, handled>>

(* A retry is due. It closes the connection in websocketNetworks, whosever  *)
(* that is, and catches up with the network in networks; while a restart    *)
(* awaits the chains there is none, and its first use throws.              *)
RetryFires(n) ==
    /\ timers[n] > 0
    /\ timers' = [timers EXCEPT ![n] = @ - 1]
    /\ CloseSlot(0)
    /\ IF current # 0
       THEN /\ setup' = [setup EXCEPT ![n] = FreshSetup("timer", current)]
            /\ UNCHANGED doomed
       ELSE /\ doomed' = TRUE
            /\ UNCHANGED setup
    /\ UNCHANGED <<chainVars, dbOffset, networkVars, mem, tasks, handled, used>>

Receive(n, l) ==
    /\ l \in wire[n]
    /\ wire' = [wire EXCEPT ![n] = @ \ {l}]
    /\ tasks' = tasks \union {[net |-> n, log |-> l, at |-> "process"]}
    /\ UNCHANGED <<chainVars, dbOffset, networkVars, mem, slot, setup, conn, timers, doomed,
                   handled, used>>

(* The end of the processing in a handler: on a network that was not        *)
(* released, the offset in memory moves at once and the row's update is sent.*)
TaskHandles(t) ==
    /\ t \in tasks
    /\ t.at = "process"
    /\ handled' = [handled EXCEPT ![t.log] = @ + 1]
    /\ IF phase[t.net] = "live"
       THEN /\ tasks' = (tasks \ {t}) \union {[t EXCEPT !.at = "save"]}
            /\ mem' = [mem EXCEPT ![t.net] = t.log.block + 1]
       ELSE /\ tasks' = tasks \ {t}
            /\ UNCHANGED mem
    /\ UNCHANGED <<chainVars, dbOffset, networkVars, socketVars, setup, timers, doomed, used>>

TaskSaves(t) ==
    /\ t \in tasks
    /\ t.at = "save"
    /\ tasks' = tasks \ {t}
    /\ dbOffset' = t.log.block + 1
    /\ UNCHANGED <<chainVars, networkVars, mem, socketVars, setup, timers, doomed, handled, used>>

(* The handler catches the failure of its update. *)
TaskSaveFails(t) ==
    /\ t \in tasks
    /\ t.at = "save"
    /\ Spend("db", MaxDbFaults)
    /\ tasks' = tasks \ {t}
    /\ UNCHANGED <<chainVars, dbOffset, networkVars, mem, socketVars, setup, timers, doomed,
                   handled>>

-----------------------------------------------------------------------------
(* Restarts and crashes                                                    *)

TimersOnRestartFault == timers
TimersOnRestart == [n \in Net |-> 0]

(* The API listens after the onModuleInit of the boot.                      *)
Booting ==
    \/ phase[1] \in {"asked", "read"}
    \/ setup[1].by = "init" /\ setup[1].at # "idle"

(* restartIndexer clears the timers, releases the network in networks and   *)
(* the connection in websocketNetworks, and runs onModuleInit again, which  *)
(* awaits the chains. While it does, networks is empty: a second restart    *)
(* finds nothing to release, and both will make a network of the chain.     *)
Restart ==
    /\ ~Booting
    /\ Spend("restart", MaxRestarts)
    /\ timers' = TimersOnRestart
    /\ IF current # 0 THEN CloseSlot(current) ELSE UNCHANGED socketVars
    /\ \E new \in Net :
         /\ \A n \in Net : phase[n] = "none" <=> n >= new
         /\ phase' = [n \in Net |-> IF n = new THEN "asked"
                                    ELSE IF n = current THEN "released" ELSE phase[n]]
    /\ mem' = [n \in Net |-> IF n = current THEN 0 ELSE mem[n]]
    /\ current' = 0
    /\ overlapped' = (overlapped \/ \E n \in Net : phase[n] \in {"asked", "read"})
    /\ UNCHANGED <<chainVars, dbOffset, setup, tasks, doomed, handled>>

(* The process ends and is started again: only the database is left.       *)
Boot ==
    /\ phase' = Started.phase
    /\ mem' = Started.mem
    /\ current' = 0
    /\ slot' = 0
    /\ setup' = Started.setup
    /\ conn' = Started.conn
    /\ wire' = Started.wire
    /\ timers' = Started.timers
    /\ tasks' = {}
    /\ doomed' = FALSE
    /\ overlapped' = FALSE
    /\ UNCHANGED <<chainVars, dbOffset, handled>>

Crash == Spend("crash", MaxCrashes) /\ Boot

DoomedExit == doomed /\ Boot /\ UNCHANGED used

-----------------------------------------------------------------------------
CatchUpStep(n) ==
    \/ ChainsRead(n)
    \/ Ready(n)
    \/ GotHead(n)
    \/ GotLogs(n)
    \/ \E l \in Log : HandleBatched(n, l)
    \/ BatchDone(n)
    \/ Throws(n)
    \/ SaveOffset(n)
    \/ Subscribe(n)

SocketStep(n) ==
    \/ SocketOpens(n)
    \/ SocketCloses(n)
    \/ RetryFires(n)
    \/ \E l \in Log : Receive(n, l)

TaskStep(t) ==
    \/ TaskHandles(t)
    \/ TaskSaves(t)
    \/ TaskSaveFails(t)

Faults ==
    \/ \E n \in Net : ChainsFail(n) \/ HeadFails(n) \/ LogsFail(n) \/ SaveFails(n)
    \/ Restart
    \/ Crash

Next ==
    \/ Mine
    \/ \E n \in Net : CatchUpStep(n)
    \/ \E n \in Net : SocketStep(n)
    \/ \E t \in tasks : TaskStep(t)
    \/ DoomedExit
    \/ Faults

Spec == Init /\ [][Next]_vars

(* Every await of a setup ends, a refused connection closes and a timer     *)
(* fires. Nothing is assumed of mining, of faults or of the node accepting. *)
Fairness ==
    /\ WF_vars(\E n \in Net : CatchUpStep(n))
    /\ WF_vars(\E n \in Net : RetryFires(n))
    /\ WF_vars(~WsReachable /\ \E n \in Net : SocketCloses(n))
    /\ WF_vars(DoomedExit)

FairSpec == Spec /\ Fairness

-----------------------------------------------------------------------------
(* Properties                                                              *)

(* Every variable has its type.                                            *)
TypeOK ==
    /\ head \in 1 .. MaxBlock
    /\ logs \in SUBSET Log
    /\ dbOffset \in Nat
    /\ phase \in [Net -> {"none", "asked", "read", "live", "released", "failed"}]
    /\ mem \in [Net -> Nat]
    /\ current \in Net \union {0}
    /\ slot \in Net \union {0}
    /\ setup \in [Net -> Setup]
    /\ conn \in [Net -> {"none", "connecting", "open", "closing"}]
    /\ wire \in [Net -> SUBSET Log]
    /\ timers \in [Net -> Nat]
    /\ tasks \in SUBSET Task
    /\ doomed \in BOOLEAN
    /\ overlapped \in BOOLEAN
    /\ handled \in [Log -> Nat]
    /\ used \in [FaultSort -> Nat]

(* A running catch-up (checkoutChainLogs) has missed nothing: between the   *)
(* block it started from and its loop variable every log was handled, and   *)
(* so was, in the range it is at, every log of the kinds it has asked for,  *)
(* whatever is mined, pushed, saved or handled by others meanwhile.        *)
Covers(s) ==
    /\ s.at \in {"fetch", "process", "save"} =>
         \A l \in logs : s.start <= l.block /\ l.block < s.from => handled[l] > 0
    /\ s.at \in {"fetch", "process"} =>
         \A l \in logs : /\ s.from <= l.block /\ l.block <= s.to
                         /\ \/ l.kind < s.kind
                            \/ l.kind = s.kind /\ s.at = "process" /\ l \notin s.batch
                         => handled[l] > 0

CatchUpCovers == \A n \in Net : Covers(setup[n])

(* The saved offset never passes over a log: whatever a crash, a restart or *)
(* a failed getLogs interrupts, each log from the offset the chain row held *)
(* at first up to the one it holds now was handled.                        *)
NothingSkipped ==
    FirstOffset # 0 =>
        \A l \in logs : FirstOffset <= l.block /\ l.block < dbOffset => handled[l] > 0

(* The same, forgiving a log that is still on its way to its handler.       *)
NothingLost ==
    FirstOffset # 0 =>
        \A l \in logs : FirstOffset <= l.block /\ l.block < dbOffset =>
            \/ handled[l] > 0
            \/ \E n \in Net : l \in wire[n]
            \/ \E t \in tasks : t.log = l

(* No fault, no repetition: as long as nothing has failed or restarted, the *)
(* catch-ups of setupWebSocketListener's retries hand no log over twice,    *)
(* although each starts at the offset where the last one ended.             *)
OnceWithoutFaults ==
    (\A s \in FaultSort : used[s] = 0) => \A l \in Log : handled[l] <= 1

(* What keeps a network served: its running setup, its connection, its      *)
(* scheduled retries.                                                      *)
Links(n) ==
    timers[n] + (IF setup[n].at = "idle" THEN 0 ELSE 1) + (IF conn[n] = "none" THEN 0 ELSE 1)

AtMostOneLink ==
    \A n \in Net : /\ phase[n] = "live" => Links(n) <= 1
                   /\ phase[n] # "live" => timers[n] = 0

(* Two subscriptions would both hand over each log.                        *)
OneNetworkServed ==
    ~overlapped => \A n \in Net \ {current} : phase[n] # "live" /\ conn[n] = "none"

NeverAbandoned ==
    used["db"] = 0 => IF current # 0
                      THEN phase[current] = "live" /\ Links(current) = 1
                      ELSE \E n \in Net : phase[n] \in {"asked", "read"}

(* A network has at most one of a setup, a connection and a scheduled       *)
(* retry, and one that was released has no retry. Unless a restart begins   *)
(* while another reads the chains, no network but the one in networks is    *)
(* served. And unless a query of the chain table fails, that one always has *)
(* its link, or a restart is about to give it one: the indexer never stops  *)
(* retrying, however closes, retries, crashes and restarts interleave.      *)
SingleRetryChain == AtMostOneLink /\ OneNetworkServed /\ NeverAbandoned

(* No block is passed over before it is mined: the offset in memory and the *)
(* saved one are at most one more than the last block.                      *)
OffsetWithinChain == dbOffset <= head + 1 /\ \A n \in Net : mem[n] <= head + 1

=============================================================================
