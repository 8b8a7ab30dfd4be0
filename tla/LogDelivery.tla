------------------------------ MODULE LogDelivery ------------------------------
(***************************************************************************)
(* What the indexer of a chain promises to the rest of the server: each log *)
(* of interest is handed to its handler at least once, and the number of    *)
(* the block to go on from, the only thing that outlives the process, never *)
(* passes over a log that was not. There are no sockets, ranges, retries or *)
(* processes here; Indexer implements this (IndexerDelivery).              *)
(***************************************************************************)
EXTENDS Integers

CONSTANTS
    Logs,       \* every log there can be, a record with the number of its block
    FirstBlock, \* the last block when the service is first started
    First       \* the block whose logs are the first to be delivered

VARIABLES
    head,       \* number of the last block
    logs,       \* the logs of all blocks
    delivered,  \* the logs that were handed over, once or more
    offset      \* the block to go on from, as it is stored

vars == <<head, logs, delivered, offset>>

Init ==
    /\ head = FirstBlock
    /\ logs = {}
    /\ delivered = {}
    /\ offset = First

(* The chain grows by a block, with any logs.                              *)
Grow ==
    /\ head' = head + 1
    /\ \E new \in SUBSET {l \in Logs : l.block = head + 1} : logs' = logs \union new
    /\ UNCHANGED <<delivered, offset>>

Deliver ==
    /\ \E l \in logs : delivered' = delivered \union {l}
    /\ UNCHANGED <<head, logs, offset>>

(* Everything from the first block up to n was delivered.                  *)
DeliveredUpTo(n) == \A l \in logs : First <= l.block /\ l.block < n => l \in delivered

(* The offset is stored; it may also go back, and logs be delivered again.  *)
Acknowledge ==
    /\ \E n \in 1 .. head + 1 : DeliveredUpTo(n) /\ offset' = n
    /\ UNCHANGED <<head, logs, delivered>>

Next ==
    \/ Grow
    \/ Deliver
    \/ Acknowledge

Safety == Init /\ [][Next]_vars

(* No log waits for ever.                                                  *)
Delivers == \A l \in Logs : (l \in logs /\ First <= l.block) ~> l \in delivered

Spec == Safety /\ Delivers

=============================================================================
