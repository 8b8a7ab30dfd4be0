----------------------------- MODULE PriceCache -----------------------------
(***************************************************************************)
(* The cached prices of one market. Trade handlers, the deployment and a   *)
(* job every six hours fill the cache, none of them awaited; closing the   *)
(* market deletes the entry before the row is saved; readers take the      *)
(* entry if there is one and compute the prices if not.                    *)
(*                                                                         *)
(* A price is the number of trades it reflects, or Final for the ratios   *)
(* of the row of a closed market, which no trade changes. The operator     *)
(* named ...Fault is a plausible mistake in the one it precedes; no        *)
(* specification uses it.                                                  *)
(***************************************************************************)
EXTENDS Integers, FiniteSets

CONSTANTS
    Fills,          \* runs of cacheOngoingMarketPrices that may overlap
    Readers,        \* requests that show the market
    MaxTrades,      \* bound: trades
    MaxFills        \* bound: fills begun

VARIABLES
    trades,     \* trades on the chain
    closing,    \* open, contract (closed there), deleted (from the cache), saved
    cache,      \* the entry AMM.<id>
    fill,       \* what each fill is doing
    reader,     \* what each reader is doing
    begun,
    late        \* did a fill run between the deletion and the save, or across it?

vars == <<trades, closing, cache, fill, reader, begun, late>>

None == -1
Final == -2
Price == (0 .. MaxTrades) \union {Final}

Idle == [pc |-> "idle", price |-> None]
ReaderIdle == [pc |-> "idle", open |-> TRUE, shown |-> None]

TypeOK ==
    /\ trades \in 0 .. MaxTrades /\ begun \in 0 .. MaxFills /\ late \in BOOLEAN
    /\ closing \in {"open", "contract", "deleted", "saved"}
    /\ cache \in Price \union {None}
    /\ fill \in [Fills -> [pc : {"idle", "price", "set"}, price : Price \union {None}]]
    /\ reader \in [Readers -> [pc : {"idle", "cache", "price", "done"}, open : BOOLEAN,
                               shown : Price \union {None}]]

RowOpen == closing # "saved"
Filling == {f \in Fills : fill[f].pc # "idle"}

(* getMarketAllOutcomePrices: the chain's prices while the row a caller     *)
(* holds is open, the ratios of its outcomes once it is closed.             *)
Prices(open) == IF open THEN trades ELSE Final

Trade ==
    /\ closing = "open" /\ trades < MaxTrades
    /\ trades' = trades + 1
    /\ UNCHANGED <<closing, cache, fill, reader, begun, late>>

EligibleFault == TRUE

(* Handlers drop the trades of a closed market, the periodic job asks for   *)
(* the rows that are not closed.                                            *)
Eligible == RowOpen

(* A handler, the job or the deployment goes on with the market it loaded.  *)
BeginFill(f) ==
    /\ fill[f].pc = "idle" /\ begun < MaxFills
    /\ Eligible
    /\ begun' = begun + 1
    /\ fill' = [fill EXCEPT ![f].pc = "price"]
    /\ late' = (late \/ closing = "deleted")
    /\ UNCHANGED <<trades, closing, cache, reader>>

(* cacheOngoingMarketPrices: its market was open when it was loaded.        *)
ReadPrices(f) ==
    /\ fill[f].pc = "price"
    /\ fill' = [fill EXCEPT ![f] = [pc |-> "set", price |-> Prices(TRUE)]]
    /\ UNCHANGED <<trades, closing, cache, reader, begun, late>>

SetCache(f) ==
    /\ fill[f].pc = "set"
    /\ cache' = fill[f].price
    /\ fill' = [fill EXCEPT ![f] = Idle]
    /\ UNCHANGED <<trades, closing, reader, begun, late>>

(* The views fail, or the cache does: nobody waits for a fill.              *)
FailFill(f) ==
    /\ fill[f].pc # "idle"
    /\ fill' = [fill EXCEPT ![f] = Idle]
    /\ UNCHANGED <<trades, closing, cache, reader, begun, late>>

(* After 21,400 seconds; the job comes after 21,600.                        *)
Expire ==
    /\ cache # None
    /\ cache' = None
    /\ UNCHANGED <<trades, closing, fill, reader, begun, late>>

(* closeMarket: the contract, the entry, whose deletion may fail in silence, *)
(* and the row.                                                             *)
CloseContract ==
    /\ closing = "open" /\ closing' = "contract"
    /\ UNCHANGED <<trades, cache, fill, reader, begun, late>>

DeleteEntry ==
    /\ closing = "contract" /\ closing' = "deleted"
    /\ \/ cache' = None /\ late' = (Filling # {})
       \/ cache' = cache /\ late' = TRUE
    /\ UNCHANGED <<trades, fill, reader, begun>>

SaveRow ==
    /\ closing = "deleted" /\ closing' = "saved"
    /\ UNCHANGED <<trades, cache, fill, reader, begun, late>>

(* A reader loads the row, looks in the cache, computes what is not there.  *)
Load(r) ==
    /\ reader[r].pc = "idle"
    /\ reader' = [reader EXCEPT ![r] = [@ EXCEPT !.pc = "cache", !.open = RowOpen]]
    /\ UNCHANGED <<trades, closing, cache, fill, begun, late>>

(* getMarketOutcomeState.                                                   *)
LookInCache(r) ==
    /\ reader[r].pc = "cache"
    /\ reader' = [reader EXCEPT ![r].pc = IF cache = None THEN "price" ELSE "done",
                                ![r].shown = cache]
    /\ UNCHANGED <<trades, closing, cache, fill, begun, late>>

Compute(r) ==
    /\ reader[r].pc = "price"
    /\ reader' = [reader EXCEPT ![r].pc = "done", ![r].shown = Prices(reader[r].open)]
    /\ UNCHANGED <<trades, closing, cache, fill, begun, late>>

Init ==
    /\ trades = 0 /\ closing = "open" /\ cache = None /\ begun = 0 /\ late = FALSE
    /\ fill = [f \in Fills |-> Idle] /\ reader = [r \in Readers |-> ReaderIdle]

Next ==
    \/ Trade \/ Expire \/ CloseContract \/ DeleteEntry \/ SaveRow
    \/ \E f \in Fills : BeginFill(f) \/ ReadPrices(f) \/ SetCache(f) \/ FailFill(f)
    \/ \E r \in Readers : Load(r) \/ LookInCache(r) \/ Compute(r)

Spec == Init /\ [][Next]_vars

(* Who loads a market after it was closed is shown its final prices, unless *)
(* a fill was under way while the market was being closed, or the deletion  *)
(* of its entry failed.                                                     *)
FinalOnceClosed == \A r \in Readers :
    reader[r].pc = "done" /\ ~reader[r].open /\ ~late => reader[r].shown = Final
=============================================================================
