--------------------------------- MODULE Calls ---------------------------------
(***************************************************************************)
(* BlockchainHelperService.call: how every transaction of the server is     *)
(* sent. The operator's account is shared by all requests, a user's by the  *)
(* user's. The number of a transaction (its nonce) is read, then the        *)
(* transaction is sent: of two calls that read the same number one is        *)
(* refused, and tries once more. A user who lacks gas is given some by the  *)
(* operator first. Operators named ...Fault are plausible mistakes in the    *)
(* operator they precede; no specification uses them.                      *)
(***************************************************************************)
EXTENDS Naturals, FiniteSets

CONSTANTS
    CallIds,    \* calls under way at once
    Users,      \* accounts of users; the operator's is another one
    Multiplier, \* walletGasRefillMultiplier; the gas of a call is the unit
    MaxFaults   \* bound: answers of the node that are lost

VARIABLES
    sent,       \* transactions the node has accepted from each account
    gas,        \* native tokens of each user
    gifts,      \* gas that was sent and is not mined: pairs of a call and a number
    call,
    faults

vars == <<sent, gas, gifts, call, faults>>

Operator == "operator"
Senders == Users \union {Operator}

(* quick: dontWait; again: preventNonceMismatchRetry; landed: transactions   *)
(* of the call that the node accepted; given: gifts of gas; strange: was it  *)
(* refused in words isANonceError does not know?                           *)
Call == [pc : {"idle", "gas", "number gift", "gift", "given", "number", "send", "wait",
               "done", "failed"},
         by : Senders, quick : BOOLEAN, nonce : Nat, again : BOOLEAN, landed : Nat,
         given : Nat, strange : BOOLEAN, why : {"none", "nonce", "gift", "lost", "funds"}]

NoCall == [pc |-> "idle", by |-> Operator, quick |-> FALSE, nonce |-> 0, again |-> FALSE,
           landed |-> 0, given |-> 0, strange |-> FALSE, why |-> "none"]

TypeOK ==
    /\ sent \in [Senders -> Nat] /\ gas \in [Users -> Nat]
    /\ gifts \subseteq CallIds \X Nat
    /\ call \in [CallIds -> Call]
    /\ faults \in 0 .. MaxFaults

At(c, pc) == call[c].pc = pc
Goto(c, pc) == call' = [call EXCEPT ![c].pc = pc]
Fail(c, why) == call' = [call EXCEPT ![c].pc = "failed", ![c].nonce = 0, ![c].why = why]

Start(by) == IF by = Operator THEN "number" ELSE "gas"

(* Only the approval of outcome tokens, a user's call, does not wait.        *)
Begin(c, by, quick) ==
    /\ At(c, "idle")
    /\ quick => by # Operator
    /\ call' = [call EXCEPT ![c] = [NoCall EXCEPT !.pc = Start(by), !.by = by, !.quick = quick]]
    /\ UNCHANGED <<sent, gas, gifts, faults>>

ScarceFault(u) == gas[u] < Multiplier
(* "estimatedGas.gte(balance)"                                             *)
Scarce(u) == gas[u] <= 1

EstimateGas(c) ==
    /\ At(c, "gas")
    /\ Goto(c, IF Scarce(call[c].by) THEN "number gift" ELSE "number")
    /\ UNCHANGED <<sent, gas, gifts, faults>>

(* sendTransaction asks the node for the next number first.                 *)
ReadNumber(c) ==
    /\ call[c].pc \in {"number gift", "number"}
    /\ LET gift == At(c, "number gift") IN
       call' = [call EXCEPT ![c].nonce = sent[IF gift THEN Operator ELSE call[c].by],
                            ![c].pc = IF gift THEN "gift" ELSE "send"]
    /\ UNCHANGED <<sent, gas, gifts, faults>>

(* Whatever keeps the gift from being sent becomes an error of another kind, *)
(* which is not retried.                                                   *)
GiveGas(c) ==
    /\ At(c, "gift")
    /\ IF call[c].nonce = sent[Operator]
       THEN /\ sent' = [sent EXCEPT ![Operator] = @ + 1]
            /\ gifts' = gifts \union {<<c, call[c].given>>}
            /\ call' = [call EXCEPT ![c].given = @ + 1, ![c].nonce = 0,
                                    ![c].pc = IF call[c].quick THEN "number" ELSE "given"]
       ELSE Fail(c, "gift") /\ UNCHANGED <<sent, gifts>>
    /\ UNCHANGED <<gas, faults>>

MineGift(g) ==
    /\ g \in gifts
    /\ gifts' = gifts \ {g}
    /\ gas' = [gas EXCEPT ![call[g[1]].by] = @ + Multiplier]
    /\ UNCHANGED <<sent, call, faults>>

AwaitGift(c) ==
    /\ At(c, "given")
    /\ <<c, call[c].given - 1>> \notin gifts
    /\ Goto(c, "number")
    /\ UNCHANGED <<sent, gas, gifts, faults>>

RetriesFault(c, known) == TRUE
(* Once, and only for a nonce error: the transaction was refused then.       *)
Retries(c, known) == known /\ ~call[c].again

Repeat(c) == call' = [call EXCEPT ![c].again = TRUE, ![c].nonce = 0,
                                  ![c].pc = Start(call[c].by)]

Funded(c) == \A u \in Users : call[c].by = u => gas[u] >= 1
Accepted(c) == call[c].nonce = sent[call[c].by] /\ Funded(c)

Accept(c) ==
    /\ sent' = [sent EXCEPT ![call[c].by] = @ + 1]
    /\ gas' = IF call[c].by = Operator THEN gas ELSE [gas EXCEPT ![call[c].by] = @ - 1]

(* The node takes the transaction; or finds its number taken and says so in *)
(* words that are known or not; or finds no gas to pay it with.             *)
Send(c) ==
    /\ At(c, "send")
    /\ \/ /\ Accepted(c) /\ Accept(c)
          /\ call' = [call EXCEPT ![c].landed = @ + 1, ![c].nonce = 0,
                                  ![c].pc = IF call[c].quick THEN "done" ELSE "wait"]
       \/ /\ call[c].nonce # sent[call[c].by]
          /\ UNCHANGED <<sent, gas>>
          /\ \E known \in BOOLEAN :
               IF Retries(c, known) THEN Repeat(c)
               ELSE call' = [call EXCEPT ![c].pc = "failed", ![c].nonce = 0, ![c].why = "nonce",
                                         ![c].strange = ~known]
       \/ /\ call[c].nonce = sent[call[c].by] /\ ~Funded(c)
          /\ UNCHANGED <<sent, gas>>
          /\ Fail(c, "funds")
    /\ UNCHANGED <<gifts, faults>>

(* The transaction was accepted, but the node's answer did not arrive.       *)
LoseAnswer(c) ==
    /\ At(c, "send") /\ Accepted(c)
    /\ faults < MaxFaults /\ faults' = faults + 1
    /\ Accept(c)
    /\ call' = [call EXCEPT ![c].landed = @ + 1, ![c].nonce = 0,
                            ![c].again = @ \/ Retries(c, FALSE),
                            ![c].why = IF Retries(c, FALSE) THEN "none" ELSE "lost",
                            ![c].pc = IF Retries(c, FALSE) THEN Start(call[c].by) ELSE "failed"]
    /\ UNCHANGED gifts

(* The receipt arrives, or the error of a transaction that was reverted:     *)
(* of the call's end, only that the transaction landed matters here.        *)
AwaitReceipt(c) ==
    /\ At(c, "wait")
    /\ Goto(c, "done")
    /\ UNCHANGED <<sent, gas, gifts, faults>>

Init ==
    /\ sent = [a \in Senders |-> 0]
    /\ gas = [u \in Users |-> 1]
    /\ gifts = {}
    /\ call = [c \in CallIds |-> NoCall]
    /\ faults = 0

Next ==
    \/ \E c \in CallIds :
         \/ \E by \in Senders, quick \in BOOLEAN : Begin(c, by, quick)
         \/ EstimateGas(c) \/ ReadNumber(c) \/ GiveGas(c) \/ AwaitGift(c)
         \/ Send(c) \/ LoseAnswer(c) \/ AwaitReceipt(c)
    \/ \E g \in gifts : MineGift(g)

Spec == Init /\ [][Next]_vars

-----------------------------------------------------------------------------
(* Properties                                                              *)

(* A retry never sends twice what the node has taken, and a caller that is  *)
(* told of success or of a refusal is told the truth.                      *)
LandsOnce == \A c \in CallIds :
    /\ call[c].landed <= 1
    /\ call[c].pc = "done" => call[c].landed = 1
    /\ call[c].why \in {"nonce", "gift", "funds"} => call[c].landed = 0

(* One retry is enough for two: a call fails on its number, in words the     *)
(* code knows, only if two other transactions of the account took it.       *)
RetrySuffices == \A c \in CallIds :
    call[c].why = "nonce" /\ ~call[c].strange => sent[call[c].by] >= 2

(* A call that waits is given gas once, however often it is sent: before    *)
(* the retry the first gift is there. One that does not wait may get two.   *)
GivenOnce == \A c \in CallIds : ~call[c].quick => call[c].given <= 1

=============================================================================
