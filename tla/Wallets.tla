------------------------------ MODULE Wallets ------------------------------
(***************************************************************************)
(* The wallets the server keeps for its users and the funds it gives them: *)
(* a wallet is created at the first request that needs one or connected by *)
(* hand, the faucet gives native tokens and turns them into the default    *)
(* token, a charge transfers the default token from the operator, and      *)
(* converts native tokens first when the operator is short of it.          *)
(*                                                                         *)
(* Requests overlap; every query and every transaction is a step that may  *)
(* fail, and a restart forgets the requests and the times of the faucet.   *)
(* Operators named ...Fault are plausible mistakes in the operator they    *)
(* precede; no specification uses them.                                    *)
(***************************************************************************)
EXTENDS Integers, Sequences, FiniteSets, Functions, TLC

CONSTANTS
    Requests,       \* requests under way at once
    Users,          \* users of the server
    Accounts,       \* accounts of the chain a wallet may hold
    Amounts,        \* amounts of a charge
    Reserve,        \* default tokens the operator starts with
    Native,         \* native tokens the operator starts with
    Delay,          \* perRequestDelay of the faucet
    MaxRequests,    \* bound: requests begun
    MaxClock,       \* bound: time
    MaxFaults       \* bound: failed steps and restarts

VARIABLES
    (* The database. *)
    wallets,    \* blockchain_wallet rows
    logged,     \* transaction logs of each user: how much was received
    (* The chain. *)
    reserve,    \* default tokens of the operator
    native,     \* native tokens of the operator
    received,   \* what the chain has given each user
    (* The server. *)
    times,      \* requestTimes of the faucet, Never where there is none
    req,        \* the requests
    clock,
    (* History and budget. *)
    grants,     \* times of the faucet's transfers to each user
    lapse,      \* users whose faucet request overlapped another, or was cut short
    lost,       \* received by each user and never to be logged
    forced,     \* addresses set by force, or raced, or in another case
    begun,
    faults

vars == <<wallets, logged, reserve, native, received, times, req, clock, grants, lapse,
          lost, forced, begun, faults>>
funds == <<logged, reserve, native, received, lost>>
faucet == <<times, clock, grants, lapse>>
budget == <<begun, faults>>

Never == -1

(* The same account may be written with the checksum's capitals or without. *)
Address == [account : Accounts, form : {"checksum", "lower"}]

NoAddress == [account |-> "none", form |-> "none"]

(* The row of a user: user_id is unique, address is not.                    *)
Wallet == [user : Users, address : Address]

Request == [pc : {"idle", "find", "owns", "insert", "inUse", "connect", "update",
                  "faucet", "give", "convert", "balance", "refill", "transfer", "log"},
            kind : {"wallet", "connect", "faucet", "charge"}, user : Users \union {"none"},
            address : Address \union {NoAddress}, force : BOOLEAN,
            amount : Nat, need : Nat, alone : BOOLEAN]

NoRequest == [pc |-> "idle", kind |-> "wallet", user |-> "none",
              address |-> NoAddress, force |-> FALSE, amount |-> 0, need |-> 0,
              alone |-> TRUE]

TypeOK ==
    /\ begun \in 0 .. MaxRequests
    /\ wallets \subseteq Wallet
    /\ \A f \in {logged, received, lost} : f \in [Users -> Nat]
    /\ reserve \in Int /\ native \in Int /\ clock \in 0 .. MaxClock
    /\ times \in [Users -> Int] /\ grants \in [Users -> Seq(0 .. MaxClock)]
    /\ lapse \subseteq Users /\ forced \subseteq Accounts /\ faults \in 0 .. MaxFaults
    /\ req \in [Requests -> Request]

Idle == {r \in Requests : req[r].pc = "idle"}
Owned(u) == {w \in wallets : w.user = u}

At(r, pc) == req[r].pc = pc
Goto(r, pc) == req' = [req EXCEPT ![r] = IF pc = "idle" THEN NoRequest
                                          ELSE [@ EXCEPT !.pc = pc]]
MayFail == faults < MaxFaults

(* The requests that a request of this kind, for this user, interferes with. *)
Rivals(kind, u) == {r \in Requests \ Idle :
    CASE kind = "charge" -> req[r].kind \in {"charge", "faucet"}
      [] kind = "faucet" -> req[r].kind = "charge" \/ req[r].user = u
      [] OTHER -> req[r].user = u \/ {kind, req[r].kind} = {"connect"}}

(***************************************************************************)
(* Wallets.                                                                *)
(***************************************************************************)
Begin(r, kind, u, address, force, amount) ==
    /\ r \in Idle
    /\ LET rivals == Rivals(kind, u) IN
       req' = [i \in Requests |->
                 IF i = r
                 THEN [pc |-> "find", kind |-> kind, user |-> u, address |-> address,
                       force |-> force, amount |-> amount, need |-> 0, alone |-> rivals = {}]
                 ELSE [req[i] EXCEPT !.alone = @ /\ i \notin rivals]]
    /\ lapse' = IF kind = "faucet" /\ \E i \in Requests \ Idle :
                        req[i].kind = "faucet" /\ req[i].user = u
                THEN lapse \union {u} ELSE lapse
    /\ begun < MaxRequests /\ begun' = begun + 1
    /\ UNCHANGED <<wallets, funds, times, clock, grants, forced, faults>>

(* What a request does once it has the wallet of its user.                  *)
After(r) == CASE req[r].kind = "faucet" -> "faucet"
              [] req[r].kind = "charge" -> "balance"
              [] OTHER -> "idle"

(* getWallet: the row, or a wallet made now. manuallyConnectWallet refuses  *)
(* a user who has one unless forced, and looks for the address otherwise.   *)
FindWallet(r) ==
    /\ At(r, "find")
    /\ Goto(r, IF req[r].kind = "connect"
               THEN IF Owned(req[r].user) = {} THEN "inUse"
                    ELSE IF req[r].force THEN "update" ELSE "idle"
               ELSE IF Owned(req[r].user) = {} THEN "owns" ELSE After(r))
    /\ UNCHANGED <<wallets, funds, faucet, forced, budget>>

(* createWallet looks once more.                                            *)
AlreadyOwns(r) ==
    /\ At(r, "owns")
    /\ Goto(r, IF Owned(req[r].user) = {} THEN "insert" ELSE "idle")
    /\ UNCHANGED <<wallets, funds, faucet, forced, budget>>

StoreFault(r, address) ==
    wallets' = {w \in wallets : w.user # req[r].user}
                   \union {[user |-> req[r].user, address |-> address]}

(* The second of two rows of a user is refused by the unique index.         *)
Store(r, address) ==
    IF Owned(req[r].user) = {}
    THEN wallets' = wallets \union {[user |-> req[r].user, address |-> address]}
    ELSE UNCHANGED wallets

(* A random account is nobody else's.                                       *)
CreateWallet(r) ==
    /\ At(r, "insert")
    /\ \E a \in Accounts \ ({w.address.account : w \in wallets}
                                \union {req[i].address.account : i \in Requests \ Idle}) :
           Store(r, [account |-> a, form |-> "checksum"])
    /\ Goto(r, IF Owned(req[r].user) = {} THEN After(r) ELSE "idle")
    /\ UNCHANGED <<funds, faucet, forced, budget>>

InUseFault(address) == \E w \in wallets : w.address = [address EXCEPT !.form = "lower"]

(* The address is compared as it is written; the other comparison, of the   *)
(* private key with the encrypted ones, never finds anything.               *)
InUse(address) == \E w \in wallets : w.address = address

AddressInUse(r) ==
    /\ At(r, "inUse")
    /\ Goto(r, IF InUse(req[r].address) THEN "idle" ELSE "connect")
    /\ UNCHANGED <<wallets, funds, faucet, forced, budget>>

(* Accounts whose owner is no longer looked after: known under another      *)
(* spelling when connected, or connected by two requests at once.           *)
Unchecked(r) ==
    IF \/ ~req[r].alone
       \/ \E w \in wallets : /\ w.address.account = req[r].address.account
                             /\ w.address.form # req[r].address.form
    THEN {req[r].address.account} ELSE {}

Connect(r) ==
    /\ At(r, "connect")
    /\ Store(r, req[r].address)
    /\ forced' = forced \union Unchecked(r)
    /\ Goto(r, "idle")
    /\ UNCHANGED <<funds, faucet, budget>>

(* byForce overwrites the address, whoever else has it.                     *)
ConnectByForce(r) ==
    /\ At(r, "update")
    /\ wallets' = (wallets \ Owned(req[r].user))
                      \union {[user |-> req[r].user, address |-> req[r].address]}
    /\ forced' = forced \union {req[r].address.account}
    /\ Goto(r, "idle")
    /\ UNCHANGED <<funds, faucet, budget>>

(***************************************************************************)
(* The faucet.                                                             *)
(***************************************************************************)
TooSoonFault(u) == times[u] # Never /\ times[u] >= clock

TooSoon(u) == times[u] # Never /\ times[u] > clock - Delay

Cut(r) == IF req[r].kind = "faucet" THEN lapse \union {req[r].user} ELSE lapse

CheckTime(r) ==
    /\ At(r, "faucet")
    /\ Goto(r, IF TooSoon(req[r].user) THEN "idle" ELSE "give")
    /\ UNCHANGED <<wallets, funds, faucet, forced, budget>>

(* faucetDonateNativeTokens: native tokens of the operator, not logged.     *)
Give(r) ==
    /\ At(r, "give")
    /\ native >= req[r].amount
    /\ native' = native - req[r].amount
    /\ received' = [received EXCEPT ![req[r].user] = @ + req[r].amount]
    /\ grants' = [grants EXCEPT ![req[r].user] = Append(@, clock)]
    /\ Goto(r, "convert")
    /\ UNCHANGED <<wallets, logged, reserve, lost, times, clock, lapse, forced, budget>>

(* The user's wallet deposits them for the default token.                   *)
Convert(r) ==
    /\ At(r, "convert")
    /\ Goto(r, "log")
    /\ UNCHANGED <<wallets, funds, faucet, forced, budget>>

(* The log is awaited, and only then is the time of the request set.        *)
Log(r) ==
    /\ At(r, "log")
    /\ logged' = [logged EXCEPT ![req[r].user] = @ + req[r].amount]
    /\ times' = IF req[r].kind = "faucet" THEN [times EXCEPT ![req[r].user] = clock]
                ELSE times
    /\ Goto(r, "idle")
    /\ UNCHANGED <<wallets, reserve, native, received, lost, clock, grants, lapse,
                   forced, budget>>

(***************************************************************************)
(* transferFromOperator.                                                   *)
(***************************************************************************)
(* The operator's balance decides: more than the amount is enough; if not,  *)
(* five times what is missing is converted, which is nothing at equality.   *)
Balance(r) ==
    /\ At(r, "balance")
    /\ LET amount == req[r].amount
           need == 5 * (amount - reserve)
       IN  IF reserve = amount THEN Goto(r, "idle")
           ELSE req' = [req EXCEPT
                    ![r].pc = IF reserve > amount THEN "transfer" ELSE "refill",
                    ![r].need = IF reserve > amount THEN 0 ELSE need]
    /\ UNCHANGED <<wallets, funds, faucet, forced, budget>>

RefillFault(r) ==
    /\ At(r, "refill")
    /\ Goto(r, "transfer")
    /\ UNCHANGED <<wallets, funds, faucet, forced, budget>>

Refill(r) ==
    /\ At(r, "refill")
    /\ IF native >= req[r].need
       THEN /\ reserve' = reserve + req[r].need
            /\ native' = native - req[r].need
            /\ Goto(r, "transfer")
       ELSE Goto(r, "idle") /\ UNCHANGED <<reserve, native>>
    /\ UNCHANGED <<wallets, logged, received, lost, faucet, forced, budget>>

TransferFault(r) ==
    /\ At(r, "transfer")
    /\ reserve' = reserve - req[r].amount
    /\ received' = [received EXCEPT ![req[r].user] = @ + req[r].amount]
    /\ logged' = [logged EXCEPT ![req[r].user] = @ + req[r].amount]
    /\ Goto(r, "log")
    /\ UNCHANGED <<wallets, native, lost, faucet, forced, budget>>

Transfer(r) ==
    /\ At(r, "transfer")
    /\ IF reserve >= req[r].amount
       THEN /\ reserve' = reserve - req[r].amount
            /\ received' = [received EXCEPT ![req[r].user] = @ + req[r].amount]
            /\ Goto(r, "log")
       ELSE Goto(r, "idle") /\ UNCHANGED <<reserve, received>>
    /\ UNCHANGED <<wallets, logged, native, lost, faucet, forced, budget>>

(***************************************************************************)
(* Failures.                                                               *)
(***************************************************************************)
(* What a request has given and not logged.                                 *)
Unlogged(r) == IF req[r].pc \in {"convert", "log"} THEN req[r].amount ELSE 0
UnloggedOf(u) == SumFunctionOnSet([r \in Requests |-> Unlogged(r)],
                                  {r \in Requests \ Idle : req[r].user = u})

(* A query or a transaction fails; the request ends with an error.          *)
FailStep(r) ==
    /\ r \notin Idle /\ MayFail
    /\ lost' = [lost EXCEPT ![req[r].user] = @ + Unlogged(r)]
    /\ lapse' = Cut(r)
    /\ Goto(r, "idle")
    /\ faults' = faults + 1
    /\ UNCHANGED <<wallets, logged, reserve, native, received, times, clock, grants, forced,
                   begun>>

(* The times of the faucet are kept in memory.                              *)
Restart ==
    /\ MayFail /\ faults' = faults + 1
    /\ lost' = [u \in Users |-> lost[u] + UnloggedOf(u)]
    /\ times' = [u \in Users |-> Never]
    /\ lapse' = Users
    /\ req' = [r \in Requests |-> NoRequest]
    /\ UNCHANGED <<wallets, logged, reserve, native, received, clock, grants, forced, begun>>

Tick ==
    /\ clock < MaxClock
    /\ clock' = clock + 1
    /\ UNCHANGED <<wallets, funds, times, req, grants, lapse, forced, budget>>

Init ==
    /\ wallets = {} /\ reserve = Reserve /\ native = Native
    /\ logged = [u \in Users |-> 0] /\ received = logged /\ lost = logged
    /\ times = [u \in Users |-> Never] /\ grants = [u \in Users |-> <<>>]
    /\ clock = 0 /\ lapse = {} /\ forced = {} /\ faults = 0
    /\ begun = 0 /\ req = [r \in Requests |-> NoRequest]

(* The faucet's amount is one unit; a charge is of a user, never of the     *)
(* operator itself.                                                         *)
Next ==
    \/ \E r \in Requests, u \in Users :
           \/ Begin(r, "wallet", u, NoAddress, FALSE, 0)
           \/ \E a \in Address, force \in BOOLEAN : Begin(r, "connect", u, a, force, 0)
           \/ Begin(r, "faucet", u, NoAddress, FALSE, 1)
           \/ \E n \in Amounts : Begin(r, "charge", u, NoAddress, FALSE, n)
    \/ \E r \in Requests :
           \/ FindWallet(r) \/ AlreadyOwns(r) \/ CreateWallet(r)
           \/ AddressInUse(r) \/ Connect(r) \/ ConnectByForce(r)
           \/ CheckTime(r) \/ Give(r) \/ Convert(r) \/ Log(r)
           \/ Balance(r) \/ Refill(r) \/ Transfer(r) \/ FailStep(r)
    \/ Restart \/ Tick

Spec == Init /\ [][Next]_vars

(***************************************************************************)
(* Properties.                                                             *)
(***************************************************************************)
(* A user who asks the faucet one request at a time, none of which is cut   *)
(* short, is given tokens once in a delay at most: the time is set after    *)
(* everything it limits.                                                    *)
FaucetOncePerDelay == \A u \in Users \ lapse :
    \A i \in 1 .. Len(grants[u]) - 1 : grants[u][i + 1] - grants[u][i] >= Delay

(* Two wallets hold the same account only if one was connected by force, in *)
(* another spelling, or while another was being connected.                  *)
AccountsDiffer == \A v, w \in wallets :
    v # w /\ v.address.account = w.address.account => v.address.account \in forced

(* An address is only replaced by force: of two first requests of a user,   *)
(* the second uses the wallet of the first or fails.                        *)
ReplacedOnlyByForce == [][\A w \in wallets :
    w \in wallets' \/ \E r \in Requests : At(r, "update") /\ req[r].user = w.user]_vars

(* Everything a user was given is logged, once, but for what failed between *)
(* the transfer and its log.                                                *)
ReceivedIsLogged == \A u \in Users :
    received[u] = logged[u] + lost[u] + UnloggedOf(u)

(* A charge on its own succeeds if the operator has the native tokens to    *)
(* convert, except when its balance is exactly the amount.                  *)
ChargeAloneSucceeds == [][\A r \in Requests :
    /\ req[r].kind = "charge" /\ req[r].pc \in {"balance", "refill", "transfer"}
    /\ req'[r].pc = "idle" /\ faults' = faults /\ req[r].alone
    => \/ At(r, "balance") /\ reserve = req[r].amount
       \/ At(r, "refill") /\ native < req[r].need]_vars
=============================================================================
