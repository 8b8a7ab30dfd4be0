----------------------------- MODULE Deployment -----------------------------
(***************************************************************************)
(* How a question becomes a market: requests that create a market at once  *)
(* or reserve it for a later date, the cron job that starts the reserved   *)
(* ones, updates and removals of reservations, and the contracts and rows  *)
(* they leave behind when they overlap, fail half way or are cut off.      *)
(*                                                                         *)
(* A reservation is a row of base_prediction_market with its outcomes in   *)
(* base_conditional_token. Contracts are numbered per reservation: the      *)
(* question is hashed with the current time, so that the chain never        *)
(* refuses to create a second contract for one reservation.                *)
(***************************************************************************)
EXTENDS Naturals, FiniteSets

CONSTANTS
    Cron,       \* runs of processPredictionMarkets that may overlap
    Requests,   \* API requests that may overlap
    Questions,  \* texts of questions
    MaxBase,    \* bound: rows of base_prediction_market
    MaxTime,    \* bound: dates are 1 .. MaxTime
    MaxUpdates, \* bound: updates of reservations
    MaxFaults   \* bound: crashes, failed queries and calls, lost receipts

ASSUME QuestionsAssumption == Questions # {}
ASSUME DeploymentBounds ==
    MaxBase \in Nat \ {0} /\ MaxTime \in Nat /\ MaxUpdates \in Nat /\ MaxFaults \in Nat

Procs == Cron \union Requests
Base == 1 .. MaxBase

VARIABLES
    now,        \* the clock
    base,       \* the reservations
    markets,    \* the rows of prediction_market
    contracts,  \* how many market makers were created for each reservation
    balance,    \* collateral of the operator, in initial liquidities
    allowance,  \* what the factory may take of it
    task,       \* what each run is doing
    updates,    \* updates so far
    overlapped, \* history: has a run begun while another was under way?
    faults      \* faults that have occurred

chainVars == <<contracts, balance, allowance>>
dbVars == <<base, markets>>
vars == <<now, base, markets, contracts, balance, allowance, task, updates, overlapped, faults>>

(* "outcomes": are its outcomes saved? A reservation without a start date   *)
(* (0) is only kept while its market is being created.                     *)
Reservation == [row : {"unused", "live", "removed", "deleted"}, question : Questions,
                start : 0 .. MaxTime, outcomes : BOOLEAN]

Market == [base : Base, no : Nat, question : Questions, outcomes : BOOLEAN]

(* A reservation as the cron job has loaded it.                            *)
Loaded == [base : Base, question : Questions, outcomes : BOOLEAN]

(* "at" is the await a run stands at. Of deployMarket: prepareCondition,    *)
(* the balance of the operator (funds), deposit, approve, creation of the   *)
(* contract (create), save of the market, of its outcomes, and delete of    *)
(* the reservation; of createNewMarket: reserve, reserveOutcomes, cleanup;  *)
(* of the cron job: next; of an update: drop, add, update.                  *)
Task == [op : {"none", "cron", "create", "update"},
         at : {"idle", "prepare", "funds", "deposit", "approve", "create", "market",
               "outcomes", "delete", "reserve", "reserveOutcomes", "cleanup", "next",
               "drop", "add", "update"},
         base : Base, question : Questions, start : 0 .. MaxTime, outcomes : BOOLEAN,
         no : Nat, todo : SUBSET Loaded]

Unused == [row |-> "unused", question |-> CHOOSE q \in Questions : TRUE, start |-> 0,
           outcomes |-> FALSE]
Idle == [op |-> "none", at |-> "idle", base |-> 1, question |-> Unused.question, start |-> 0,
         outcomes |-> FALSE, no |-> 0, todo |-> {}]

Init ==
    /\ now = 0
    /\ base = [b \in Base |-> Unused]
    /\ markets = {}
    /\ contracts = [b \in Base |-> 0]
    /\ balance = 0 /\ allowance = 0
    /\ task = [p \in Procs |-> Idle]
    /\ updates = 0
    /\ overlapped = FALSE
    /\ faults = 0

Tick ==
    /\ now < MaxTime
    /\ now' = now + 1
    /\ UNCHANGED <<dbVars, chainVars, task, updates, overlapped, faults>>

-----------------------------------------------------------------------------
(* The start of a run. Operators named ...Fault are plausible mistakes in    *)
(* the operator they precede; no specification uses them.                  *)

Start(p, t) ==
    /\ task[p].op = "none"
    /\ task' = [task EXCEPT ![p] = t]
    /\ overlapped' = (overlapped \/ \E q \in Procs : task[q].op # "none")

RepetitiveFault(q) == \E b \in Base : base[b].row = "live" /\ base[b].question = q

(* isQuestionRepetitive looks into both tables.                            *)
Repetitive(q) ==
    \/ \E m \in markets : m.question = q
    \/ \E b \in Base : base[b].row = "live" /\ base[b].question = q

(* createNewMarket, up to the save of the reservation; 0 is no start date.  *)
Creates(p, q, date) ==
    /\ p \in Requests
    /\ ~Repetitive(q)
    /\ date # 0 => date > now
    /\ Start(p, [Idle EXCEPT !.op = "create", !.at = "reserve", !.question = q, !.start = date])
    /\ UNCHANGED <<now, dbVars, chainVars, updates, faults>>

Due(b) == base[b].row = "live" /\ base[b].start # 0 /\ base[b].start <= now

(* processPredictionMarkets loads the reservations that are due, with the   *)
(* outcomes of each, and deploys them one by one.                          *)
CronStarts(p) ==
    /\ p \in Cron
    /\ \E b \in Base : Due(b)
    /\ Start(p, [Idle EXCEPT !.op = "cron", !.at = "next",
                             !.todo = {[base |-> b, question |-> base[b].question,
                                        outcomes |-> base[b].outcomes] : b \in {c \in Base : Due(c)}}])
    /\ UNCHANGED <<now, dbVars, chainVars, updates, faults>>

(* updateReservedPredictionMarketData, of the question, the start date, the  *)
(* outcomes, or none: the row is saved with the values that were loaded.   *)
Updates(p, b, q, date, withOutcomes) ==
    /\ p \in Requests
    /\ updates < MaxUpdates
    /\ updates' = updates + 1
    /\ base[b].row = "live"
    /\ q # base[b].question => ~Repetitive(q)
    /\ date # base[b].start => date > now
    /\ Start(p, [Idle EXCEPT !.op = "update", !.at = IF withOutcomes THEN "drop" ELSE "update",
                             !.base = b, !.question = q, !.start = date])
    /\ UNCHANGED <<now, dbVars, chainVars, faults>>

(* softRemoveReservedPredictionMarket, of the row and its outcomes.        *)
Removes(b) ==
    /\ base[b].row = "live"
    /\ base' = [base EXCEPT ![b].row = "removed", ![b].outcomes = FALSE]
    /\ UNCHANGED <<now, markets, chainVars, task, updates, overlapped, faults>>

-----------------------------------------------------------------------------
(* How a run goes on. What deployMarket throws ends one round of the cron    *)
(* job, or is answered by the cleanup of createNewMarket.                  *)

Then(p, at) == task' = [task EXCEPT ![p].at = at]

Ended(t) ==
    IF t.op = "cron" /\ t.todo # {}
    THEN [Idle EXCEPT !.op = "cron", !.at = "next", !.todo = t.todo]
    ELSE Idle
Ends(p) == task' = [task EXCEPT ![p] = Ended(@)]

Deploying == {"prepare", "funds", "deposit", "approve", "create", "market", "outcomes", "delete"}

Thrown(t) ==
    IF t.op = "create" /\ t.at \in Deploying
    THEN [Idle EXCEPT !.op = "create", !.at = "cleanup"]
    ELSE Ended(t)
Throws(p) == task' = [task EXCEPT ![p] = Thrown(@)]

Fault == faults < MaxFaults /\ faults' = faults + 1

(* Any await may throw without what it asked for having been done.         *)
Fails(p) ==
    /\ task[p].op # "none" /\ task[p].at # "next"
    /\ Fault
    /\ Throws(p)
    /\ UNCHANGED <<now, dbVars, chainVars, updates, overlapped>>

-----------------------------------------------------------------------------
(* createNewMarket                                                         *)

Reserve(p) ==
    /\ task[p].at = "reserve"
    /\ \E b \in Base :
         /\ base[b].row = "unused"
         /\ \A c \in 1 .. b - 1 : base[c].row # "unused"
         /\ base' = [base EXCEPT ![b] = [Unused EXCEPT !.row = "live",
                                         !.question = task[p].question, !.start = task[p].start]]
         /\ task' = [task EXCEPT ![p].base = b, ![p].outcomes = TRUE,
                       ![p].at = IF task[p].start = 0 THEN "prepare" ELSE "reserveOutcomes"]
    /\ UNCHANGED <<now, markets, chainVars, updates, overlapped, faults>>

(* The outcomes belong to a row that must still exist, be it removed.      *)
InsertOutcomes(p) ==
    LET b == task[p].base IN
    IF base[b].row \in {"live", "removed"}
    THEN base' = [base EXCEPT ![b].outcomes = TRUE] ELSE UNCHANGED base

ReserveOutcomes(p) ==
    /\ task[p].at = "reserveOutcomes"
    /\ InsertOutcomes(p)
    /\ Ends(p)
    /\ UNCHANGED <<now, markets, chainVars, updates, overlapped, faults>>

CleanedFault(b) == base[b].row \in {"live", "removed"}

(* Every reservation without a start date is deleted, whoever is at it.     *)
Cleaned(b) == base[b].row \in {"live", "removed"} /\ base[b].start = 0

Cleanup(p) ==
    /\ task[p].at = "cleanup"
    /\ base' = [b \in Base |-> IF Cleaned(b) THEN [base[b] EXCEPT !.row = "deleted", !.outcomes = FALSE]
                               ELSE base[b]]
    /\ Ends(p)
    /\ UNCHANGED <<now, markets, chainVars, updates, overlapped, faults>>

-----------------------------------------------------------------------------
(* deployMarket                                                            *)

NextReservation(p) ==
    /\ task[p].at = "next"
    /\ \E d \in task[p].todo :
         task' = [task EXCEPT ![p].todo = @ \ {d}, ![p].at = "prepare", ![p].base = d.base,
                              ![p].outcomes = d.outcomes, ![p].question = d.question]
    /\ UNCHANGED <<now, dbVars, chainVars, updates, overlapped, faults>>

(* The contract refuses a condition without outcomes.                      *)
Prepare(p) ==
    /\ task[p].at = "prepare"
    /\ IF task[p].outcomes THEN Then(p, "funds") ELSE Throws(p)
    /\ UNCHANGED <<now, dbVars, chainVars, updates, overlapped, faults>>

Funds(p) ==
    /\ task[p].at = "funds"
    /\ Then(p, IF balance < 1 THEN "deposit" ELSE "approve")
    /\ UNCHANGED <<now, dbVars, chainVars, updates, overlapped, faults>>

(* A transaction ends well, or is mined and its receipt lost.              *)
Mined(p, t) ==
    \/ task' = [task EXCEPT ![p] = t] /\ UNCHANGED faults
    \/ Throws(p) /\ Fault

Deposit(p) ==
    /\ task[p].at = "deposit"
    /\ balance' = balance + 1
    /\ Mined(p, [task[p] EXCEPT !.at = "approve"])
    /\ UNCHANGED <<now, dbVars, contracts, allowance, updates, overlapped>>

Approve(p) ==
    /\ task[p].at = "approve"
    /\ allowance' = 1
    /\ Mined(p, [task[p] EXCEPT !.at = "create"])
    /\ UNCHANGED <<now, dbVars, contracts, balance, updates, overlapped>>

CreateMaker(p) ==
    LET b == task[p].base IN
    /\ task[p].at = "create"
    /\ balance >= 1 /\ allowance >= 1
    /\ contracts' = [contracts EXCEPT ![b] = @ + 1]
    /\ balance' = balance - 1
    /\ allowance' = allowance - 1
    /\ Mined(p, [task[p] EXCEPT !.at = "market", !.no = contracts'[b]])
    /\ UNCHANGED <<now, dbVars, updates, overlapped>>

MakerRefusedFault(p) ==
    /\ task[p].at = "create"
    /\ balance < 1 \/ allowance < 1
    /\ UNCHANGED vars

(* Somebody else has taken the collateral or the allowance.                *)
MakerRefused(p) ==
    /\ task[p].at = "create"
    /\ balance < 1 \/ allowance < 1
    /\ Throws(p)
    /\ UNCHANGED <<now, dbVars, chainVars, updates, overlapped, faults>>

NewMarket(t) == [base |-> t.base, no |-> t.no, question |-> t.question, outcomes |-> FALSE]

SaveMarketFault(p) ==
    /\ task[p].at = "market"
    /\ IF base[task[p].base].row = "live"
       THEN markets' = markets \union {NewMarket(task[p])} /\ Then(p, "outcomes")
       ELSE Throws(p) /\ UNCHANGED markets
    /\ UNCHANGED <<now, base, chainVars, updates, overlapped, faults>>

SaveMarket(p) ==
    /\ task[p].at = "market"
    /\ markets' = markets \union {NewMarket(task[p])}
    /\ Then(p, "outcomes")
    /\ UNCHANGED <<now, base, chainVars, updates, overlapped, faults>>

(* The conditional tokens and the outcome collections.                     *)
SaveOutcomes(p) ==
    /\ task[p].at = "outcomes"
    /\ markets' = {IF m = NewMarket(task[p]) THEN [m EXCEPT !.outcomes = TRUE] ELSE m : m \in markets}
    /\ Then(p, "delete")
    /\ UNCHANGED <<now, base, chainVars, updates, overlapped, faults>>

DeletesFault(p) ==
    /\ task[p].at = "delete"
    /\ Ends(p)
    /\ UNCHANGED <<now, dbVars, chainVars, updates, overlapped, faults>>

Deletes(p) ==
    /\ task[p].at = "delete"
    /\ base' = [base EXCEPT ![task[p].base].row = "deleted", ![task[p].base].outcomes = FALSE]
    /\ Ends(p)
    /\ UNCHANGED <<now, markets, chainVars, updates, overlapped, faults>>

-----------------------------------------------------------------------------
(* updateReservedPredictionMarketData: the outcomes are replaced, then the   *)
(* row is saved: a row that was removed or deleted meanwhile is there again.*)

DropOutcomes(p) ==
    /\ task[p].at = "drop"
    /\ base' = [base EXCEPT ![task[p].base].outcomes = FALSE]
    /\ Then(p, "add")
    /\ UNCHANGED <<now, markets, chainVars, updates, overlapped, faults>>

AddOutcomes(p) ==
    /\ task[p].at = "add"
    /\ InsertOutcomes(p)
    /\ IF base[task[p].base].row = "deleted" THEN Ends(p) ELSE Then(p, "update")
    /\ UNCHANGED <<now, markets, chainVars, updates, overlapped, faults>>

SaveReservation(p) ==
    LET b == task[p].base IN
    /\ task[p].at = "update"
    /\ base' = [base EXCEPT ![b].row = "live", ![b].question = task[p].question,
                            ![b].start = task[p].start]
    /\ Ends(p)
    /\ UNCHANGED <<now, markets, chainVars, updates, overlapped, faults>>

(* The server process dies, and every run with it.                         *)
Crash ==
    /\ Fault
    /\ task' = [p \in Procs |-> Idle]
    /\ UNCHANGED <<now, dbVars, chainVars, updates, overlapped>>

-----------------------------------------------------------------------------
Proceeds(p) ==
    \/ Reserve(p)
    \/ ReserveOutcomes(p)
    \/ Cleanup(p)
    \/ NextReservation(p)
    \/ Prepare(p)
    \/ Funds(p)
    \/ Deposit(p)
    \/ Approve(p)
    \/ CreateMaker(p)
    \/ MakerRefused(p)
    \/ SaveMarket(p)
    \/ SaveOutcomes(p)
    \/ Deletes(p)
    \/ DropOutcomes(p)
    \/ AddOutcomes(p)
    \/ SaveReservation(p)

Request(p) ==
    \/ \E q \in Questions, date \in 0 .. MaxTime : Creates(p, q, date)
    \/ \E b \in Base, q \in Questions, date \in 0 .. MaxTime, o \in BOOLEAN :
         Updates(p, b, q, date, o)

Next ==
    \/ Tick
    \/ \E p \in Cron : CronStarts(p)
    \/ \E p \in Requests : Request(p)
    \/ \E b \in Base : Removes(b)
    \/ \E p \in Procs : Proceeds(p)
    \/ \E p \in Procs : Fails(p)
    \/ Crash

Spec == Init /\ [][Next]_vars

(* Every await ends, and the cron job runs again and again.                *)
Fairness ==
    /\ \A p \in Cron : WF_vars(CronStarts(p))
    /\ \A p \in Procs : WF_vars(Proceeds(p))

FairSpec == Spec /\ Fairness

-----------------------------------------------------------------------------
(* Properties                                                              *)

Quiet == \A p \in Procs : task[p].op = "none"
Complete(b) == \E m \in markets : m.base = b /\ m.outcomes

(* Every variable has its type.                                            *)
TypeOK ==
    /\ now \in 0 .. MaxTime
    /\ base \in [Base -> Reservation]
    /\ markets \in SUBSET Market
    /\ contracts \in [Base -> Nat]
    /\ balance \in Nat /\ allowance \in 0 .. 1
    /\ task \in [Procs -> Task]
    /\ updates \in 0 .. MaxUpdates
    /\ overlapped \in BOOLEAN
    /\ faults \in 0 .. MaxFaults

(* A reservation with a start date is deleted only when its market is there *)
(* with its outcomes: no failure, crash or cleanup of another creation       *)
(* makes it vanish.                                                        *)
NoReservationLost ==
    [][\A b \in Base :
         base[b].row = "live" /\ base[b].start # 0 /\ base'[b].row = "deleted" => Complete(b)']_vars

(* Without faults, and however runs overlap and take each other's funds,     *)
(* each contract that was created has its market row, with its outcomes.    *)
NoOrphanContract ==
    Quiet /\ faults = 0 =>
        \A b \in Base :
            Cardinality({m \in markets : m.base = b /\ m.outcomes}) = contracts[b]

(* A reservation is started once, if no two runs overlapped and nothing      *)
(* failed: also the run after next, which finds it in no table.            *)
StartedOnceWithoutOverlap == ~overlapped /\ faults = 0 => \A b \in Base : contracts[b] <= 1

(* What isQuestionRepetitive is to keep apart: the live reservations, and    *)
(* the markets, each with the number of the reservation it was made of.     *)
Asked ==
    {[base |-> b, question |-> base[b].question] : b \in {c \in Base : base[c].row = "live"}}
        \union {[base |-> m.base, question |-> m.question] : m \in markets}

(* No request is accepted for a question that a live reservation or a       *)
(* market asks already, if no two runs overlapped, whatever fails: what      *)
(* asks one question comes of one accepted request, its reservation, or the  *)
(* market and, after a failure before the delete, the reservation beside it. *)
QuestionUniqueWithoutOverlap ==
    ~overlapped => \A x, y \in Asked : x.question = y.question => x.base = y.base

(* "This question has been asked previously!": no question has two markets. *)
QuestionAskedOnce == \A m, n \in markets : m.question = n.question => m = n

(* A reservation that is due, and has outcomes, does not stay there: its      *)
(* market is started, unless it is removed or given a later date.           *)
EventuallyStarted ==
    \A b \in Base : (Due(b) /\ base[b].outcomes) ~> ~(Due(b) /\ base[b].outcomes)

=============================================================================
