---------------------------- MODULE LifecycleStages ----------------------------
(***************************************************************************)
(* MarketLifecycle implements MarketStages: the phase is that of the        *)
(* contract and of the reported payouts, the row tells what its closed_at,  *)
(* resolved_at and fee columns hold.                                       *)
(***************************************************************************)
EXTENDS MarketLifecycle

Phase ==
    CASE reported -> "Reported"
      [] ~reported /\ stage = "Running" -> "Open"
      [] ~reported /\ stage # "Running" -> stage

Known == {c \in {"closed", "resolved"} : row[c]}

S == INSTANCE MarketStages WITH phase <- Phase, known <- Known, fee <- row.fee

(* Every step of every run of the code, interleaved with the others, crashed*)
(* or left without the receipt of its call, moves the contract one stage on, *)
(* changes a paused contract's fee, or writes what is true of it to the row. *)
ImplementsStages == S!Spec

=============================================================================
