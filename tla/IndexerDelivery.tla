---------------------------- MODULE IndexerDelivery ----------------------------
(***************************************************************************)
(* Indexer implements LogDelivery when the node accepts no WebSocket: a log *)
(* is delivered when its handler has run to the end, and the offset is the  *)
(* block_process_offset of the chain row. (With a WebSocket it does not:    *)
(* see NothingSkipped in Indexer_gap.cfg.)                                 *)
(***************************************************************************)
EXTENDS Indexer

D == INSTANCE LogDelivery WITH
        Logs <- Log, FirstBlock <- FirstHead, First <- FirstOffset,
        delivered <- {l \in Log : handled[l] > 0}, offset <- dbOffset

(* Every step of the indexer, also a crash between two awaits of a          *)
(* catch-up, a failed getLogs or an admin's restart in the middle of a       *)
(* save, is a step of the at-least-once consumer or none, and no log waits   *)
(* for ever.                                                               *)
ImplementsDelivery == D!Spec

=============================================================================
