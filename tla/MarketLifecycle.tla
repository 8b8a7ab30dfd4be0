--------------------------- MODULE MarketLifecycle ---------------------------
(***************************************************************************)
(* One prediction market: its row in the database, its contract on the     *)
(* chain, and the concurrent runs of the code that reads the one and calls *)
(* the other: the cron job that closes overdue markets, the API calls of   *)
(* its creator, its oracle, the administrators and the winners, and the    *)
(* handlers of the events the indexer delivers.                            *)
(*                                                                         *)
(* A run works on a copy of the row. Saving the copy is two steps, as      *)
(* Repository.save of TypeORM does it: a SELECT finds the columns in which *)
(* the copy and the row differ, an UPDATE writes those columns.            *)
(***************************************************************************)
EXTENDS Naturals, FiniteSets, TLC

CONSTANTS
    Cron,       \* runs of processPredictionMarkets that may overlap
    Server,     \* API requests and event handlers that may overlap
    Fees,       \* values of the fee column
    FirstFee,   \* the fee the market was created with
    MaxTime,    \* bound: dates are 1 .. MaxTime
    MaxFaults   \* bound: crashes, failed calls and lost receipts

ASSUME FeesAssumption == FirstFee \in Fees
ASSUME DatesAssumption == MaxTime \in Nat \ {0} /\ MaxFaults \in Nat

Procs == Cron \union Server
Symmetry == Permutations(Server)

VARIABLES
    now,        \* the clock
    row,        \* the market's row
    stage,      \* stage of the market maker contract
    reported,   \* did the oracle report the payouts on the chain?
    traded,     \* is there a trade event on the chain?
    fees,       \* history: the fees the contract has had
    task,       \* what each run of the code is doing
    faults      \* faults that have occurred

chainVars == <<stage, reported, traded, fees>>
vars == <<now, row, stage, reported, traded, fees, task, faults>>

(* closed, resolved and removed: closed_at, resolved_at, deleted_at are set. *)
Row == [closed : BOOLEAN, resolved : BOOLEAN, removed : BOOLEAN,
        fee : Fees, resolveAt : 1 .. MaxTime]
Column == {"closed", "resolved", "removed", "fee", "resolveAt"}

(* "at" is the await a run stands at: the call of close, reportPayouts,     *)
(* redeemPositions, pause, changeFee or changeFunding (change), resume, or  *)
(* the SELECT or the UPDATE of a save; "restore" is the resume of the       *)
(* finally block after the change has thrown.                              *)
Task == [op : {"none", "finalize", "resolve", "trade", "resolution", "fee", "other",
               "liquidity", "redeem"},
         at : {"idle", "close", "select", "update", "report", "pause", "change",
               "resume", "restore", "redeem"},
         ent : Row, diff : SUBSET Column]

(* The awaits of the function behind an operation.                         *)
StepsOf(op) ==
    CASE op = "none" -> {"idle"}
      [] op = "finalize" -> {"close", "select", "update"}
      [] op = "resolve" -> {"close", "select", "update", "report"}
      [] op \in {"trade", "resolution"} -> {"select", "update"}
      [] op = "fee" -> {"pause", "change", "resume", "restore", "select", "update"}
      [] op \in {"other", "liquidity"} -> {"pause", "change", "resume", "restore"}
      [] op = "redeem" -> {"redeem"}

FirstRow == [closed |-> FALSE, resolved |-> FALSE, removed |-> FALSE,
             fee |-> FirstFee, resolveAt |-> 1]
Idle == [op |-> "none", at |-> "idle", ent |-> FirstRow, diff |-> {}]

Init ==
    /\ now = 0
    /\ row = FirstRow
    /\ stage = "Running"
    /\ reported = FALSE
    /\ traded = FALSE
    /\ fees = {FirstFee}
    /\ task = [p \in Procs |-> Idle]
    /\ faults = 0

Overdue == row.resolveAt <= now

Tick ==
    /\ now < MaxTime
    /\ now' = now + 1
    /\ UNCHANGED <<row, chainVars, task, faults>>

(* A user trades on the market maker, through the API or not.              *)
UserTrades ==
    /\ stage = "Running"
    /\ traded' = TRUE
    /\ UNCHANGED <<now, row, stage, reported, fees, task, faults>>

-----------------------------------------------------------------------------
(* Operators named ...Fault are plausible mistakes in the operator they      *)
(* precede; no specification uses them.                                    *)
(*                                                                         *)
(* The start of a run: what the handler does up to its first await after    *)
(* it has loaded the market. A removed market is not found.                *)

Start(p, op, at, ent) ==
    /\ task[p] = Idle
    /\ ~row.removed
    /\ task' = [task EXCEPT ![p] = [op |-> op, at |-> at, ent |-> ent, diff |-> {}]]
    /\ UNCHANGED <<now, row, chainVars, faults>>

CronFinalizesFault(p) ==
    p \in Cron /\ ~row.closed /\ row.resolveAt = now /\ Start(p, "finalize", "close", row)
CronFinalizes(p) ==
    /\ p \in Cron
    /\ ~row.closed /\ Overdue
    /\ Start(p, "finalize", "close", row)

ForceCloses(p) ==
    /\ ~row.closed
    /\ Start(p, "finalize", "close", row)

(* An open market is closed first, when its creator forces the resolution.  *)
ManuallyResolves(p) ==
    Start(p, "resolve", IF row.closed THEN "report" ELSE "close", row)

(* updatePredictionMarketData with a fee: a fee that differs is changed on  *)
(* the chain before the row is saved.                                      *)
UpdatesFee(p, f, date) ==
    /\ date # row.resolveAt => date > now
    /\ Start(p, "fee", IF f = row.fee THEN "select" ELSE "pause",
             [row EXCEPT !.fee = f, !.resolveAt = date])

(* updatePredictionMarketData without a fee (unpinMarket, an image): the    *)
(* undefined fee differs from the row's, so it is "changed" too.           *)
UpdatesOther(p) == Start(p, "other", "pause", row)

ChangesLiquidity(p) ==
    /\ ~row.closed
    /\ Start(p, "liquidity", "pause", row)

Redeems(p) ==
    /\ row.closed /\ row.resolved
    /\ Start(p, "redeem", "redeem", row)

(* The indexer delivers a trade of the market: a closed market ignores it,  *)
(* for an open one the handler ends in saving the market as it was loaded.  *)
TradeLogged(p) ==
    /\ traded
    /\ ~row.closed
    /\ Start(p, "trade", "select", row)

ResolutionLoggedFault(p) ==
    reported /\ Start(p, "resolution", "select", [row EXCEPT !.resolved = TRUE])

(* The indexer delivers the resolution: an error when the market is open.   *)
ResolutionLogged(p) ==
    /\ reported
    /\ row.closed
    /\ Start(p, "resolution", "select", [row EXCEPT !.resolved = TRUE])

SoftRemoves ==
    /\ ~row.removed
    /\ row' = [row EXCEPT !.removed = TRUE]
    /\ UNCHANGED <<now, chainVars, task, faults>>

-----------------------------------------------------------------------------
(* Calls of contracts. A call throws because the contract refuses it, or by *)
(* a fault, and then the transaction may have been mined nevertheless: the  *)
(* receipt is lost.                                                        *)

Throws(refused) ==
    IF refused THEN UNCHANGED faults
    ELSE faults < MaxFaults /\ faults' = faults + 1

GoTo(p, at) == task' = [task EXCEPT ![p].at = at]
Ends(p) == task' = [task EXCEPT ![p] = Idle]

CloseThrowsFault(p) == task' = [task EXCEPT ![p].at = "select", ![p].ent.closed = TRUE]
CloseThrows(p) == Ends(p)

Close(p) ==
    /\ task[p].at = "close"
    /\ \/ /\ stage # "Closed"
          /\ stage' = "Closed"
          /\ task' = [task EXCEPT ![p].at = "select", ![p].ent.closed = TRUE]
          /\ UNCHANGED faults
       \/ /\ Throws(stage = "Closed")
          /\ stage' \in {stage, "Closed"}
          /\ CloseThrows(p)
    /\ UNCHANGED <<now, row, reported, traded, fees>>

Report(p) ==
    /\ task[p].at = "report"
    /\ \/ ~reported /\ reported' = TRUE /\ UNCHANGED faults
       \/ Throws(reported) /\ reported' \in {reported, TRUE}
    /\ Ends(p)
    /\ UNCHANGED <<now, row, stage, traded, fees>>

(* The error of a failed pause is caught: "maybe market is already paused". *)
Pause(p) ==
    /\ task[p].at = "pause"
    /\ \/ stage = "Running" /\ stage' = "Paused" /\ UNCHANGED faults
       \/ Throws(stage # "Running") /\ UNCHANGED stage
    /\ GoTo(p, "change")
    /\ UNCHANGED <<now, row, reported, traded, fees>>

(* changeFee or changeFunding, on a paused market only; changeFee("NaN")    *)
(* throws before anything is sent.                                         *)
NewFees(p) == IF task[p].op = "fee" THEN {task[p].ent.fee} ELSE {}

ChangeThrowsFault(p) == GoTo(p, "resume")
NoFinallyFault(p) == Ends(p)
ChangeThrows(p) == GoTo(p, "restore")

Change(p) ==
    /\ task[p].at = "change"
    /\ LET refused == task[p].op = "other" \/ stage # "Paused" IN
       \/ /\ ~refused
          /\ fees' = fees \union NewFees(p)
          /\ GoTo(p, "resume")
          /\ UNCHANGED faults
       \/ /\ Throws(refused)
          /\ fees' \in {fees} \union (IF refused THEN {} ELSE {fees \union NewFees(p)})
          /\ ChangeThrows(p)
    /\ UNCHANGED <<now, row, stage, reported, traded>>

AfterResume(t) == IF t.op = "fee" /\ t.at = "resume" THEN [t EXCEPT !.at = "select"] ELSE Idle

Resume(p) ==
    /\ task[p].at \in {"resume", "restore"}
    /\ \/ /\ stage = "Paused"
          /\ stage' = "Running"
          /\ task' = [task EXCEPT ![p] = AfterResume(task[p])]
          /\ UNCHANGED faults
       \/ /\ Throws(stage # "Paused")
          /\ stage' \in {stage} \union (IF stage = "Paused" THEN {"Running"} ELSE {})
          /\ Ends(p)
    /\ UNCHANGED <<now, row, reported, traded, fees>>

RedeemCalled(p) ==
    /\ task[p].at = "redeem"
    /\ Ends(p)
    /\ UNCHANGED <<now, row, chainVars, faults>>

-----------------------------------------------------------------------------
(* Repository.save                                                         *)

Differing(ent) == {c \in Column : ent[c] # row[c]}
Patched(t) ==
    LET new(c) == IF c \in t.diff THEN t.ent[c] ELSE row[c] IN
    [closed |-> new("closed"), resolved |-> new("resolved"), removed |-> new("removed"),
     fee |-> new("fee"), resolveAt |-> new("resolveAt")]

(* manualResolve goes on to report the payouts; the other runs end.        *)
AfterSave(t) == IF t.op = "resolve" THEN [t EXCEPT !.at = "report", !.diff = {}] ELSE Idle

SelectForSave(p) ==
    /\ task[p].at = "select"
    /\ LET t == task[p] IN
         task' = [task EXCEPT ![p] =
                    IF Differing(t.ent) = {} THEN AfterSave(t)
                    ELSE [t EXCEPT !.at = "update", !.diff = Differing(t.ent)]]
    /\ UNCHANGED <<now, row, chainVars, faults>>

UpdateOfSave(p) ==
    /\ task[p].at = "update"
    /\ row' = Patched(task[p])
    /\ task' = [task EXCEPT ![p] = AfterSave(task[p])]
    /\ UNCHANGED <<now, chainVars, faults>>

(* The server process dies, and every run with it.                         *)
Crash ==
    /\ faults < MaxFaults
    /\ faults' = faults + 1
    /\ task' = [p \in Procs |-> Idle]
    /\ UNCHANGED <<now, row, chainVars>>

-----------------------------------------------------------------------------
Proceeds(p) ==
    \/ Close(p)
    \/ Report(p)
    \/ Pause(p)
    \/ Change(p)
    \/ Resume(p)
    \/ RedeemCalled(p)
    \/ SelectForSave(p)
    \/ UpdateOfSave(p)

Request(p) ==
    \/ ForceCloses(p)
    \/ ManuallyResolves(p)
    \/ \E f \in Fees, date \in 1 .. MaxTime : UpdatesFee(p, f, date)
    \/ UpdatesOther(p)
    \/ ChangesLiquidity(p)
    \/ Redeems(p)
    \/ TradeLogged(p)
    \/ ResolutionLogged(p)

Next ==
    \/ Tick
    \/ UserTrades
    \/ SoftRemoves
    \/ Crash
    \/ \E p \in Cron : CronFinalizes(p)
    \/ \E p \in Server : Request(p)
    \/ \E p \in Procs : Proceeds(p)

Spec == Init /\ [][Next]_vars

(* Every await ends, and the cron job runs again and again. Nothing is      *)
(* assumed of the clock, the users, the administrators and the faults.     *)
Fairness ==
    /\ \A p \in Cron : WF_vars(CronFinalizes(p))
    /\ \A p \in Procs : WF_vars(Proceeds(p))

FairSpec == Spec /\ Fairness

-----------------------------------------------------------------------------
(* Properties                                                              *)

(* Every variable has its type, and a run stands at an await of its own.   *)
TypeOK ==
    /\ now \in 0 .. MaxTime
    /\ row \in Row
    /\ stage \in {"Running", "Paused", "Closed"}
    /\ reported \in BOOLEAN
    /\ traded \in BOOLEAN
    /\ fees \in SUBSET Fees
    /\ task \in [Procs -> Task]
    /\ \A p \in Procs : task[p].at \in StepsOf(task[p].op)
    /\ faults \in 0 .. MaxFaults

(* "The exact date when market is closed on blockchain": the row, and every *)
(* copy a run works on, has a closed_at only when the contract is closed,   *)
(* although it is set by one run while others save copies of their own.     *)
ClosedOnlyAfterChain ==
    /\ row.closed => stage = "Closed"
    /\ \A p \in Procs : task[p].ent.closed => stage = "Closed"

(* The operator closes the market before the oracle resolves it, whether it *)
(* is resolved through the API after a cron run or a force-close, or closed *)
(* by the resolving request itself.                                        *)
ReportedAfterClose == reported => stage = "Closed"

(* redeemUserRewards calls the contract only for a condition whose payouts  *)
(* are reported: resolved_at is no earlier than the report.                *)
RedeemOnlyReported ==
    (row.resolved \/ \E p \in Procs : task[p].at = "redeem") => reported

(* As long as no call was lost and the server did not crash, a market does  *)
(* not stay paused: there is a run that will resume it, even when several   *)
(* pause, change and resume it in turns and some find it paused or closed.  *)
PausedHasOwner ==
    stage = "Paused" /\ faults = 0 =>
        \E p \in Procs : task[p].at \in {"change", "resume", "restore"}

(* The fee column never shows a fee the contract did not have: an update    *)
(* that failed on the chain leaves nothing in the row, also not through     *)
(* the save of a copy that somebody else loaded.                           *)
RowFeeWasOnChain == row.fee \in fees

(* closed_at and resolved_at are unset only by the save of a stale copy in  *)
(* the trade handler or in an update of the market; the runs that close and *)
(* resolve the market never undo each other's work.                        *)
ClosersNeverUndo ==
    [][(row.closed /\ ~row'.closed) \/ (row.resolved /\ ~row'.resolved) =>
         \E p \in Procs : task[p].at = "update" /\ task[p].op \in {"trade", "fee"}]_vars

(* The indexer's handler of a resolution takes an open market for a sign    *)
(* that "something has gone wrong": payouts are reported of closed markets. *)
ReportedIsClosedInRow == reported => row.closed

(* An overdue market is closed on the chain in the end, unless its date is  *)
(* moved or it is removed.                                                 *)
EventuallyClosed == Overdue ~> (stage = "Closed" \/ ~Overdue \/ row.removed)

=============================================================================
