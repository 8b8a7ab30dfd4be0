------------------------------ MODULE MarketStages ------------------------------
(***************************************************************************)
(* What a prediction market promises to those who look at it. Its contract *)
(* goes one way, from open, with pauses, to closed and then to reported;    *)
(* the row in the database may lag behind the contract, and a stale write   *)
(* may take it back, but it never tells of a stage the contract did not     *)
(* reach, nor of a fee it did not have. There are no requests, cron runs,   *)
(* copies of the row or lost receipts here: MarketLifecycle implements this *)
(* (LifecycleStages).                                                      *)
(***************************************************************************)

CONSTANTS
    Fees,       \* what a fee may be
    FirstFee    \* the fee of a new market

VARIABLES
    phase,      \* of the contract: Open, Paused, Closed, Reported
    fees,       \* the fees the contract has had
    known,      \* what the row tells of closed and resolved
    fee         \* the fee the row tells

vars == <<phase, fees, known, fee>>

Init ==
    /\ phase = "Open"
    /\ fees = {FirstFee}
    /\ known = {}
    /\ fee = FirstFee

Moves(from, to) ==
    /\ phase \in from
    /\ phase' = to
    /\ UNCHANGED <<fees, known, fee>>

Pause  == Moves({"Open"}, "Paused")
Resume == Moves({"Paused"}, "Open")
Close  == Moves({"Open", "Paused"}, "Closed")
Report == Moves({"Closed"}, "Reported")

(* The fee of a paused contract is changed.                                *)
ChangeFee ==
    /\ phase = "Paused"
    /\ \E f \in Fees : fees' = fees \union {f}
    /\ UNCHANGED <<phase, known, fee>>

(* What the row may tell of a contract in its phase.                       *)
Tellable ==
    CASE phase \in {"Open", "Paused"} -> {}
      [] phase = "Closed" -> {"closed"}
      [] phase = "Reported" -> {"closed", "resolved"}

Write ==
    /\ known' \in SUBSET Tellable
    /\ fee' \in fees
    /\ UNCHANGED <<phase, fees>>

Next ==
    \/ Pause
    \/ Resume
    \/ Close
    \/ Report
    \/ ChangeFee
    \/ Write

Spec == Init /\ [][Next]_vars

=============================================================================
