-------------------------------- MODULE Fees --------------------------------
(***************************************************************************)
(* The fees of one market: trades leave them in the market maker; the      *)
(* creator of the market may ask for them at any time, and the handler of  *)
(* the resolution event, which may be delivered again, collects them too.  *)
(* Collections overlap with each other and with trades.                    *)
(*                                                                         *)
(* The operator named ...Fault is a plausible mistake in the one it        *)
(* precedes; no specification uses it.                                     *)
(***************************************************************************)
EXTENDS Integers, FiniteSets, Functions

CONSTANTS
    Runs,           \* collections under way at once
    MaxFees,        \* bound: fees earned
    MaxRuns,        \* bound: collections begun
    MaxFaults       \* bound: failed calls, failed queries and crashes

VARIABLES
    open,       \* is the market maker running?
    fees,       \* fees it holds
    operator,   \* fees it has paid to the operator
    logged,     \* sum of the logs of type collect-fee
    run,        \* what each collection is doing
    earned, begun, faults,
    missed      \* paid, and never to be logged

vars == <<open, fees, operator, logged, run, earned, begun, faults, missed>>

(* seen: the fees when the call was sent; paid: those of the receipt's event. *)
Idle == [pc |-> "idle", by |-> "none", seen |-> 0, paid |-> 0]

TypeOK ==
    /\ open \in BOOLEAN /\ {fees, operator, logged, missed} \subseteq 0 .. MaxFees
    /\ earned \in 0 .. MaxFees /\ begun \in 0 .. MaxRuns /\ faults \in 0 .. MaxFaults
    /\ run \in [Runs -> [pc : {"idle", "call", "log", "ok", "nothing"},
                         by : {"none", "creator", "event"},
                         seen : 0 .. MaxFees, paid : 0 .. MaxFees]]

(* A trade pays its fee to the market maker; a closed one takes no trades.  *)
Earn ==
    /\ open /\ earned < MaxFees
    /\ earned' = earned + 1 /\ fees' = fees + 1
    /\ UNCHANGED <<open, operator, logged, run, begun, faults, missed>>

Close ==
    /\ open /\ open' = FALSE
    /\ UNCHANGED <<fees, operator, logged, run, earned, begun, faults, missed>>

(* collectMarketFees of the creator, who is not asked whether the market is *)
(* closed; the end of setMarketResolutionData, after the market was closed. *)
Begin(r, by) ==
    /\ run[r].pc \in {"idle", "ok", "nothing"} /\ begun < MaxRuns
    /\ by = "event" => ~open
    /\ begun' = begun + 1
    /\ run' = [run EXCEPT ![r] = [Idle EXCEPT !.pc = "call", !.by = by, !.seen = fees]]
    /\ UNCHANGED <<open, fees, operator, logged, earned, faults, missed>>

(* withdrawFees is mined: it pays all fees there are, also if none, and the *)
(* event AMMFeeWithdrawal says how much.                                    *)
Withdraw(r) ==
    /\ run[r].pc = "call"
    /\ fees' = 0 /\ operator' = operator + fees
    /\ run' = [run EXCEPT ![r].pc = "log", ![r].paid = fees]
    /\ UNCHANGED <<open, logged, earned, begun, faults, missed>>

CollectedFault(r) == run[r].seen

(* What is logged is the event of the receipt, not what the market maker    *)
(* held before.                                                             *)
Collected(r) == run[r].paid

LogFees(r) ==
    /\ run[r].pc = "log"
    /\ logged' = logged + Collected(r)
    /\ run' = [run EXCEPT ![r].pc = IF Collected(r) = 0 THEN "nothing" ELSE "ok"]
    /\ UNCHANGED <<open, fees, operator, earned, begun, faults, missed>>

Unlogged(r) == IF run[r].pc = "log" THEN run[r].paid ELSE 0
AllUnlogged == SumFunctionOnSet([r \in Runs |-> Unlogged(r)], Runs)

(* The call is refused, its receipt is lost, or the log is not saved: the   *)
(* creator is told so, the handler goes on, and nobody tries again.         *)
Fail(r) ==
    /\ run[r].pc \in {"call", "log"} /\ faults < MaxFaults
    /\ faults' = faults + 1
    /\ missed' = missed + Unlogged(r)
    /\ run' = [run EXCEPT ![r] = Idle]
    /\ UNCHANGED <<open, fees, operator, logged, earned, begun>>

Crash ==
    /\ faults < MaxFaults /\ faults' = faults + 1
    /\ missed' = missed + AllUnlogged
    /\ run' = [r \in Runs |-> Idle]
    /\ UNCHANGED <<open, fees, operator, logged, earned, begun>>

Init ==
    /\ open = TRUE /\ fees = 0 /\ operator = 0 /\ logged = 0
    /\ run = [r \in Runs |-> Idle]
    /\ earned = 0 /\ begun = 0 /\ faults = 0 /\ missed = 0

Next ==
    \/ Earn \/ Close \/ Crash
    \/ \E r \in Runs :
           \/ \E by \in {"creator", "event"} : Begin(r, by)
           \/ Withdraw(r) \/ LogFees(r) \/ Fail(r)

Spec == Init /\ [][Next]_vars

(* Each fee paid to the operator is logged once, whatever collections and   *)
(* trades overlap, unless the collection that got it failed afterwards.     *)
FeesAreLogged == operator = logged + missed + AllUnlogged

(* The handler of the resolution leaves no fee behind, and who is told that *)
(* there was nothing to collect missed nothing that was there before.       *)
NothingLeft == \A r \in Runs :
    /\ run[r].by = "event" /\ run[r].pc \in {"log", "ok", "nothing"} => fees = 0
    /\ run[r].pc = "nothing" => run[r].seen <= operator
=============================================================================
