--------------------------- MODULE DeploymentProofs ---------------------------
(***************************************************************************)
(* Proofs about Deployment, for any number of overlapping runs, of          *)
(* reservations and of faults.                                             *)
(***************************************************************************)
EXTENDS Deployment, FiniteSetTheorems, FunctionTheorems, TLAPS

(* What a run does fits the await it stands at, and a run that does nothing *)
(* stands at none.                                                         *)
TaskFits(t) ==
    /\ t.op = "none" <=> t.at = "idle"
    /\ t.at \in {"reserve", "reserveOutcomes", "cleanup"} => t.op = "create"
    /\ t.at = "next" => t.op = "cron"
    /\ t.at \in {"drop", "add", "update"} => t.op = "update"
    /\ t.at \in Deploying => t.op \in {"create", "cron"}

TaskInv == \A p \in Procs : TaskFits(task[p])

(* A run that saves outcomes has its market there without them, unless      *)
(* another market of the reservation has its own; a run that deletes the    *)
(* reservation leaves a complete market behind.                            *)
LostInv ==
    \A p \in Procs :
        /\ task[p].at = "outcomes" => NewMarket(task[p]) \in markets \/ Complete(task[p].base)
        /\ task[p].at = "delete" => Complete(task[p].base)

(* Runs that do not overlap: at most one is active, and what asks a question *)
(* (a live reservation, a market, or a run that may still bring one of them  *)
(* about) comes of one reservation; a run about to reserve its question has  *)
(* found nobody who asks it.                                               *)
Alone == \A p, q \in Procs : task[p].op # "none" /\ task[q].op # "none" => p = q

Bringing == Deploying \union {"drop", "add", "update"}
AsksRow(b, q) == base[b].row = "live" /\ base[b].question = q
AsksMarket(b, q) == \E m \in markets : m.base = b /\ m.question = q
Deals(p, b, q) ==
    \/ task[p].at \in Bringing /\ task[p].base = b /\ task[p].question = q
    \/ task[p].op = "cron" /\ \E d \in task[p].todo : d.base = b /\ d.question = q
Asks(b, q) == AsksRow(b, q) \/ AsksMarket(b, q) \/ \E p \in Procs : Deals(p, b, q)

AsksDiffer == \A b, c \in Base, q \in Questions : Asks(b, q) /\ Asks(c, q) => b = c
Found ==
    \A p \in Procs, b \in Base, q \in Questions :
        task[p].at = "reserve" /\ task[p].question = q => ~ Asks(b, q)

UniqueInv == ~overlapped => Alone /\ AsksDiffer /\ Found

(* The contract of a reservation, if there is one, belongs to the run that   *)
(* has created it and not saved it yet, or its reservation is deleted; what  *)
(* is still to be deployed has none.                                       *)
Saving(p) == task[p].at \in {"market", "outcomes", "delete"}
Creating(p) == task[p].at \in {"prepare", "funds", "deposit", "approve", "create"}

OneContract ==
    \A b \in Base :
        \/ contracts[b] = 0
        \/ /\ contracts[b] = 1
           /\ base[b].row = "deleted" \/ \E p \in Procs : Saving(p) /\ task[p].base = b

NoContractYet ==
    \A p \in Procs : Creating(p) \/ task[p].op = "update" => contracts[task[p].base] = 0

NoContractToDo ==
    \A p \in Procs : task[p].op = "cron" =>
        \A d \in task[p].todo :
            /\ contracts[d.base] = 0
            /\ Creating(p) \/ Saving(p) => d.base # task[p].base
            /\ \A e \in task[p].todo : d.base = e.base => d = e

StartedInv == ~overlapped /\ faults = 0 => OneContract /\ NoContractYet /\ NoContractToDo

(* Without faults each contract is on its way to a complete row: one run is *)
(* about to save its market, or the market is there, and one run about to   *)
(* save its outcomes, or they are there.                                   *)
SavesMarket(p, b, n) == task[p].at = "market" /\ task[p].base = b /\ task[p].no = n
SavesOutcomes(p, m) == task[p].at = "outcomes" /\ NewMarket(task[p]) = m

AtRows == {"market", "outcomes"}
SameNo(x, y) == x.base = y.base /\ x.no = y.no

(* Rows and runs have different numbers, up to the number of contracts.     *)
RowNumbers ==
    /\ \A m \in markets : m.no \in 1 .. contracts[m.base]
    /\ \A m, n \in markets : SameNo(m, n) => m = n

RunNumbers ==
    /\ \A p \in Procs : task[p].at \in AtRows => task[p].no \in 1 .. contracts[task[p].base]
    /\ \A p, q \in Procs : /\ task[p].at \in AtRows /\ task[q].at \in AtRows
                           /\ SameNo(task[p], task[q])
                           => p = q

RunRows ==
    \A p \in Procs :
        /\ task[p].at = "market" => \A m \in markets : ~ SameNo(m, task[p])
        /\ task[p].at = "outcomes" => NewMarket(task[p]) \in markets

(* Each contract has its row or its run, and each row its outcomes or its    *)
(* run.                                                                    *)
ContractsCovered ==
    \A b \in Base : \A n \in 1 .. contracts[b] :
        \/ \E m \in markets : m.base = b /\ m.no = n
        \/ \E p \in Procs : SavesMarket(p, b, n)

RowsCovered == \A m \in markets : m.outcomes \/ \E p \in Procs : SavesOutcomes(p, m)

OrphanInv ==
    faults = 0 => /\ RowNumbers
                  /\ RunNumbers
                  /\ RunRows
                  /\ ContractsCovered
                  /\ RowsCovered

-----------------------------------------------------------------------------
(* Types                                                                   *)

(* A number that was never reserved and a run that does nothing are of      *)
(* their types.                                                             *)
LEMMA IdleType == Unused \in Reservation /\ Idle \in Task
<1>1. Unused.question \in Questions
  BY QuestionsAssumption DEF Unused
<1>2. 1 \in Base
  BY DeploymentBounds DEF Base
<1> QED BY <1>1, <1>2, DeploymentBounds DEF Unused, Idle, Reservation, Task

(* So is a run that has ended, well or not.                                 *)
LEMMA EndedType == ASSUME NEW t \in Task PROVE Ended(t) \in Task /\ Thrown(t) \in Task
<1>1. \A todo \in SUBSET Loaded : [Idle EXCEPT !.op = "cron", !.at = "next", !.todo = todo] \in Task
  BY IdleType DEF Task
<1>2. [Idle EXCEPT !.op = "create", !.at = "cleanup"] \in Task
  BY IdleType DEF Task
<1>3. t.todo \in SUBSET Loaded
  BY DEF Task
<1>4. Ended(t) \in Task
  BY <1>1, <1>3, IdleType DEF Ended
<1> QED BY <1>2, <1>4 DEF Thrown

(* And the row that a run saves.                                            *)
LEMMA NewMarketType == ASSUME NEW t \in Task PROVE NewMarket(t) \in Market
BY DEF NewMarket, Task, Market

(* The types are right at the start.                                        *)
LEMMA TypeInit == Init => TypeOK
<1> SUFFICES ASSUME Init PROVE TypeOK
  OBVIOUS
<1>1. base \in [Base -> Reservation] /\ task \in [Procs -> Task]
  BY IdleType DEF Init
<1>2. contracts \in [Base -> Nat] /\ markets \in SUBSET Market
  BY DEF Init
<1>3. /\ now \in 0 .. MaxTime /\ updates \in 0 .. MaxUpdates /\ faults \in 0 .. MaxFaults
      /\ balance \in Nat /\ allowance \in 0 .. 1
  BY DeploymentBounds DEF Init
<1>4. overlapped \in BOOLEAN
  BY DEF Init
<1> QED BY <1>1, <1>2, <1>3, <1>4 DEF TypeOK

(* A run that starts is of its type.                                        *)
LEMMA TypeStart ==
    ASSUME TypeOK, NEW p \in Procs, NEW t \in Task, Start(p, t)
    PROVE  task' \in [Procs -> Task] /\ overlapped' \in BOOLEAN
BY DEF TypeOK, Start

(* The requests to create, to change and to remove.                         *)
LEMMA TypeRequest == ASSUME TypeOK, NEW p \in Requests, Request(p) PROVE TypeOK'
<1>1. ASSUME NEW q \in Questions, NEW date \in 0 .. MaxTime, Creates(p, q, date)
      PROVE  TypeOK'
  <2> DEFINE t == [Idle EXCEPT !.op = "create", !.at = "reserve", !.question = q, !.start = date]
  <2>1. t \in Task
    BY IdleType DEF Task
  <2>2. p \in Procs /\ Start(p, t)
    BY <1>1 DEF Creates, Procs
  <2> HIDE DEF t
  <2> QED BY <1>1, <2>1, <2>2, TypeStart DEF TypeOK, Creates, dbVars, chainVars
<1>2. ASSUME NEW b \in Base, NEW q \in Questions, NEW date \in 0 .. MaxTime, NEW o \in BOOLEAN,
             Updates(p, b, q, date, o)
      PROVE  TypeOK'
  <2> DEFINE t == [Idle EXCEPT !.op = "update", !.at = IF o THEN "drop" ELSE "update",
                               !.base = b, !.question = q, !.start = date]
  <2>1. t \in Task
    BY IdleType DEF Task
  <2>2. p \in Procs /\ Start(p, t)
    BY <1>2 DEF Updates, Procs
  <2> HIDE DEF t
  <2>3. updates' \in 0 .. MaxUpdates
    BY <1>2, DeploymentBounds DEF TypeOK, Updates
  <2> QED BY <1>2, <2>1, <2>2, <2>3, TypeStart DEF TypeOK, Updates, dbVars, chainVars
<1> QED BY <1>1, <1>2 DEF Request

(* The cron job that begins.                                                *)
LEMMA TypeCron == ASSUME TypeOK, NEW p \in Cron, CronStarts(p) PROVE TypeOK'
<1> DEFINE due == {[base |-> b, question |-> base[b].question, outcomes |-> base[b].outcomes] :
                       b \in {c \in Base : Due(c)}}
           t == [Idle EXCEPT !.op = "cron", !.at = "next", !.todo = due]
<1>1. due \in SUBSET Loaded
  BY DEF TypeOK, Reservation, Loaded
<1> HIDE DEF due
<1>2. t \in Task
  BY <1>1, IdleType DEF Task
<1>3. p \in Procs /\ Start(p, t)
  BY DEF CronStarts, Procs, due
<1> HIDE DEF t
<1> QED BY <1>2, <1>3, TypeStart DEF TypeOK, CronStarts, dbVars, chainVars

(* What a run does next leaves a task behind.                              *)
LEMMA TaskTypes ==
    ASSUME TypeOK, NEW p \in Procs
    PROVE  /\ task[p] \in Task
           /\ \A t \in Task : task' = [task EXCEPT ![p] = t] => task' \in [Procs -> Task]
           /\ Ends(p) \/ Throws(p) => task' \in [Procs -> Task]
<1>1. task[p] \in Task
  BY DEF TypeOK
<1>2. Ended(task[p]) \in Task /\ Thrown(task[p]) \in Task
  BY <1>1, EndedType
<1> QED BY <1>1, <1>2 DEF TypeOK, Ends, Throws

(* A run that goes on to another await.                                     *)
LEMMA ThenType ==
    ASSUME TypeOK, NEW p \in Procs,
           NEW at \in {"funds", "deposit", "approve", "outcomes", "delete", "add", "update"},
           Then(p, at)
    PROVE  task' \in [Procs -> Task]
BY DEF TypeOK, Then, Task

(* A fault is counted while the budget lasts.                               *)
LEMMA FaultType == ASSUME TypeOK, faults' = faults \/ Fault PROVE faults' \in 0 .. MaxFaults
BY DeploymentBounds DEF TypeOK, Fault

(* A call of a contract, with or without its answer.                        *)
LEMMA MinedType ==
    ASSUME TypeOK, NEW p \in Procs, NEW t \in Task, Mined(p, t)
    PROVE  task' \in [Procs -> Task] /\ faults' \in 0 .. MaxFaults
<1>1. CASE task' = [task EXCEPT ![p] = t] /\ UNCHANGED faults
  BY <1>1, FaultType DEF TypeOK
<1>2. CASE Throws(p) /\ Fault
  BY <1>2, FaultType, TaskTypes
<1> QED BY <1>1, <1>2 DEF Mined

(* The outcomes of a reservation are inserted.                              *)
LEMMA InsertType ==
    ASSUME TypeOK, NEW p \in Procs, InsertOutcomes(p)
    PROVE  base' \in [Base -> Reservation]
<1>1. task[p].base \in Base
  BY DEF TypeOK, Task
<1>2. [base[task[p].base] EXCEPT !.outcomes = TRUE] \in Reservation
  BY <1>1 DEF TypeOK, Reservation
<1> QED BY <1>1, <1>2 DEF TypeOK, InsertOutcomes

(* Every step of a run that goes on.                                        *)
LEMMA TypeProceeds == ASSUME TypeOK, NEW p \in Procs, Proceeds(p) PROVE TypeOK'
<1>0. task[p] \in Task /\ task[p].base \in Base
  BY TaskTypes DEF Task
<1>1. CASE Reserve(p)
  <2>1. PICK b \in Base :
          /\ base' = [base EXCEPT ![b] = [Unused EXCEPT !.row = "live",
                                          !.question = task[p].question, !.start = task[p].start]]
          /\ task' = [task EXCEPT ![p].base = b, ![p].outcomes = TRUE,
                        ![p].at = IF task[p].start = 0 THEN "prepare" ELSE "reserveOutcomes"]
    BY <1>1 DEF Reserve
  <2>2. base' \in [Base -> Reservation]
    BY <2>1, <1>0, IdleType DEF TypeOK, Reservation, Task
  <2>3. task' \in [Procs -> Task]
    BY <2>1, <1>0 DEF TypeOK, Task
  <2> QED BY <1>1, <2>2, <2>3 DEF Reserve, TypeOK, chainVars
<1>2. CASE ReserveOutcomes(p)
  BY <1>2, TaskTypes, InsertType DEF ReserveOutcomes, TypeOK, chainVars
<1>3. CASE Cleanup(p)
  <2>1. base' \in [Base -> Reservation]
    BY <1>3 DEF TypeOK, Cleanup, Reservation
  <2> QED BY <1>3, <2>1, TaskTypes DEF Cleanup, TypeOK, chainVars
<1>4. CASE NextReservation(p)
  <2>1. PICK d \in task[p].todo :
          task' = [task EXCEPT ![p].todo = @ \ {d}, ![p].at = "prepare", ![p].base = d.base,
                               ![p].outcomes = d.outcomes, ![p].question = d.question]
    BY <1>4 DEF NextReservation
  <2>2. d \in Loaded
    BY <1>0 DEF Task
  <2>3. [task[p] EXCEPT !.todo = @ \ {d}, !.at = "prepare", !.base = d.base,
                        !.outcomes = d.outcomes, !.question = d.question] \in Task
    BY <2>2, <1>0 DEF Task, Loaded
  <2>4. task' = [task EXCEPT ![p] = [task[p] EXCEPT !.todo = @ \ {d}, !.at = "prepare",
                               !.base = d.base, !.outcomes = d.outcomes, !.question = d.question]]
    BY <2>1
  <2>5. task' \in [Procs -> Task]
    BY <2>3, <2>4, TaskTypes
  <2> QED BY <1>4, <2>5 DEF NextReservation, TypeOK, dbVars, chainVars
<1>5. CASE Prepare(p)
  BY <1>5, TaskTypes, ThenType DEF Prepare, TypeOK, dbVars, chainVars
<1>6. CASE Funds(p)
  BY <1>6, ThenType DEF Funds, TypeOK, dbVars, chainVars
<1>7. CASE Deposit(p)
  <2>1. [task[p] EXCEPT !.at = "approve"] \in Task
    BY <1>0 DEF Task
  <2> QED BY <1>7, <2>1, MinedType DEF Deposit, TypeOK, dbVars
<1>8. CASE Approve(p)
  <2>1. [task[p] EXCEPT !.at = "create"] \in Task
    BY <1>0 DEF Task
  <2> QED BY <1>8, <2>1, MinedType DEF Approve, TypeOK, dbVars
<1>9. CASE CreateMaker(p)
  <2>1. contracts' \in [Base -> Nat]
    BY <1>9, <1>0 DEF CreateMaker, TypeOK
  <2>2. [task[p] EXCEPT !.at = "market", !.no = contracts'[task[p].base]] \in Task
    BY <1>0, <2>1 DEF Task
  <2>3. balance' \in Nat /\ allowance' \in 0 .. 1
    BY <1>9 DEF CreateMaker, TypeOK
  <2> QED BY <1>9, <2>1, <2>2, <2>3, MinedType DEF CreateMaker, TypeOK, dbVars
<1>10. CASE MakerRefused(p)
  BY <1>10, TaskTypes DEF MakerRefused, TypeOK, dbVars, chainVars
<1>11. CASE SaveMarket(p)
  BY <1>11, <1>0, ThenType, NewMarketType DEF SaveMarket, TypeOK, chainVars
<1>12. CASE SaveOutcomes(p)
  <2>1. markets' \in SUBSET Market
    BY <1>12 DEF SaveOutcomes, TypeOK, Market
  <2> QED BY <1>12, <2>1, ThenType DEF SaveOutcomes, TypeOK, chainVars
<1>13. CASE Deletes(p)
  <2>1. base' \in [Base -> Reservation]
    BY <1>13, <1>0 DEF TypeOK, Deletes, Reservation
  <2> QED BY <1>13, <2>1, TaskTypes DEF Deletes, TypeOK, chainVars
<1>14. CASE DropOutcomes(p)
  <2>1. base' \in [Base -> Reservation]
    BY <1>14, <1>0 DEF TypeOK, DropOutcomes, Reservation
  <2> QED BY <1>14, <2>1, ThenType DEF DropOutcomes, TypeOK, chainVars
<1>15. CASE AddOutcomes(p)
  BY <1>15, TaskTypes, ThenType, InsertType DEF AddOutcomes, TypeOK, chainVars
<1>16. CASE SaveReservation(p)
  <2>1. base' \in [Base -> Reservation]
    BY <1>16, <1>0 DEF TypeOK, SaveReservation, Reservation, Task
  <2> QED BY <1>16, <2>1, TaskTypes DEF SaveReservation, TypeOK, chainVars
<1> QED BY <1>1, <1>2, <1>3, <1>4, <1>5, <1>6, <1>7, <1>8, <1>9, <1>10, <1>11, <1>12, <1>13,
           <1>14, <1>15, <1>16 DEF Proceeds

(* So every step keeps the types.                                           *)
LEMMA TypeNext == ASSUME TypeOK, [Next]_vars PROVE TypeOK'
<1>1. CASE Tick
  BY <1>1, DeploymentBounds DEF Tick, TypeOK, dbVars, chainVars
<1>2. CASE \E p \in Cron : CronStarts(p)
  BY <1>2, TypeCron
<1>3. CASE \E p \in Requests : Request(p)
  BY <1>3, TypeRequest
<1>4. ASSUME NEW b \in Base, Removes(b) PROVE TypeOK'
  <2>1. base' \in [Base -> Reservation]
    BY <1>4 DEF TypeOK, Removes, Reservation
  <2> QED BY <1>4, <2>1 DEF Removes, TypeOK, chainVars
<1>5. CASE \E p \in Procs : Proceeds(p)
  BY <1>5, TypeProceeds
<1>6. ASSUME NEW p \in Procs, Fails(p) PROVE TypeOK'
  BY <1>6, TaskTypes, FaultType DEF Fails, TypeOK, dbVars, chainVars
<1>7. CASE Crash
  BY <1>7, IdleType, FaultType DEF Crash, TypeOK, dbVars, chainVars
<1>8. CASE UNCHANGED vars
  BY <1>8 DEF TypeOK, vars
<1> QED BY <1>1, <1>2, <1>3, <1>4, <1>5, <1>6, <1>7, <1>8 DEF Next

-----------------------------------------------------------------------------
(* Awaits                                                                  *)

(* The tasks in which a step of p may leave it.                            *)
LEMMA EndedFits ==
    ASSUME NEW t \in Task, TaskFits(t)
    PROVE  TaskFits(Ended(t)) /\ TaskFits(Thrown(t))
BY DEF Ended, Thrown, Idle, Deploying, TaskFits

OneFits(p) == \E t \in Task : TaskFits(t) /\ task' = [task EXCEPT ![p] = t]

(* Only the task of the run that proceeds changes.                         *)
LEMMA TaskStep == ASSUME TypeOK, TaskInv, NEW p \in Procs, Proceeds(p) PROVE OneFits(p)
<1>1. /\ task' \in [Procs -> Task] /\ task \in [Procs -> Task]
      /\ task[p] \in Task /\ TaskFits(task[p])
  BY TypeProceeds DEF TypeOK, TaskInv, Deploying, TaskFits
<1>2. ASSUME task' = [task EXCEPT ![p] = task'[p]], TaskFits(task'[p]) PROVE OneFits(p)
  BY <1>1, <1>2 DEF OneFits
<1>3. ASSUME Ends(p) \/ Throws(p) PROVE OneFits(p)
  <2>1. TaskFits(Ended(task[p])) /\ TaskFits(Thrown(task[p]))
    BY <1>1, EndedFits
  <2>2. Ended(task[p]) \in Task /\ Thrown(task[p]) \in Task
    BY <1>1, EndedType
  <2> QED BY <1>3, <2>1, <2>2 DEF Ends, Throws, OneFits
<1>4. ASSUME NEW t \in Task, TaskFits(t), Mined(p, t) PROVE OneFits(p)
  BY <1>3, <1>4 DEF Mined, OneFits
<1>14. ASSUME NEW at \in {"funds", "deposit", "approve", "outcomes", "delete"}, Then(p, at),
              task[p].at \in Deploying
       PROVE  OneFits(p)
  <2>1. task' = [task EXCEPT ![p] = [task[p] EXCEPT !.at = at]]
    BY <1>1, <1>14 DEF Then
  <2>2. TaskFits(task'[p])
    BY <1>1, <1>14, <2>1 DEF TaskFits, Task, Deploying
  <2> QED BY <1>1, <1>2, <2>1, <2>2
<1>15. ASSUME NEW at \in {"add", "update"}, Then(p, at), task[p].at \in {"drop", "add"}
       PROVE  OneFits(p)
  <2>1. task' = [task EXCEPT ![p] = [task[p] EXCEPT !.at = at]]
    BY <1>1, <1>15 DEF Then
  <2>2. TaskFits(task'[p])
    BY <1>1, <1>15, <2>1 DEF Deploying, TaskFits, Task
  <2> QED BY <1>1, <1>2, <2>1, <2>2
<1>5. CASE Reserve(p)
  <2>1. PICK b \in Base : task' = [task EXCEPT ![p] = [task[p] EXCEPT !.base = b, !.outcomes = TRUE,
                             !.at = IF task[p].start = 0 THEN "prepare" ELSE "reserveOutcomes"]]
    BY <1>1, <1>5 DEF Reserve
  <2>2. task[p].op = "create"
    BY <1>1, <1>5 DEF Reserve, Deploying, TaskFits
  <2>3. TaskFits(task'[p])
    BY <1>1, <2>1, <2>2 DEF Deploying, TaskFits, Task
  <2> QED BY <1>1, <1>2, <2>1, <2>3
<1>6. CASE ReserveOutcomes(p) \/ Cleanup(p) \/ Deletes(p) \/ SaveReservation(p) \/ MakerRefused(p)
  BY <1>3, <1>6 DEF ReserveOutcomes, Cleanup, Deletes, SaveReservation, MakerRefused
<1>7. CASE NextReservation(p)
  <2>0. PICK d \in task[p].todo :
          task' = [task EXCEPT ![p].todo = @ \ {d}, ![p].at = "prepare", ![p].base = d.base,
                               ![p].outcomes = d.outcomes, ![p].question = d.question]
    BY <1>7 DEF NextReservation
  <2>1. task' = [task EXCEPT ![p] = [task[p] EXCEPT !.todo = @ \ {d}, !.at = "prepare",
                               !.base = d.base, !.outcomes = d.outcomes, !.question = d.question]]
    BY <2>0
  <2>2. task[p].op = "cron"
    BY <1>1, <1>7 DEF NextReservation, Deploying, TaskFits
  <2>3. TaskFits(task'[p])
    BY <1>1, <2>1, <2>2 DEF Deploying, TaskFits, Task
  <2> QED BY <1>1, <1>2, <2>1, <2>3
<1>8. CASE Prepare(p) \/ Funds(p)
  BY <1>3, <1>8, <1>14 DEF Prepare, Funds, Deploying
<1>9. CASE Deposit(p)
  <2>1. [task[p] EXCEPT !.at = "approve"] \in Task /\ TaskFits([task[p] EXCEPT !.at = "approve"])
    BY <1>1, <1>9 DEF Deposit, Task, Deploying, TaskFits
  <2> QED BY <1>4, <1>9, <2>1 DEF Deposit
<1>10. CASE Approve(p)
  <2>1. [task[p] EXCEPT !.at = "create"] \in Task /\ TaskFits([task[p] EXCEPT !.at = "create"])
    BY <1>1, <1>10 DEF Approve, Task, Deploying, TaskFits
  <2> QED BY <1>4, <1>10, <2>1 DEF Approve
<1>11. CASE CreateMaker(p)
  <2> DEFINE t == [task[p] EXCEPT !.at = "market", !.no = contracts'[task[p].base]]
  <2>1. contracts'[task[p].base] \in Nat
    BY <1>1, TypeProceeds DEF TypeOK, Task
  <2>2. t \in Task /\ TaskFits(t)
    BY <1>1, <1>11, <2>1 DEF CreateMaker, Task, Deploying, TaskFits
  <2>3. Mined(p, t)
    BY <1>11 DEF CreateMaker
  <2> HIDE DEF t
  <2> QED BY <1>4, <2>2, <2>3
<1>12. CASE SaveMarket(p) \/ SaveOutcomes(p) \/ DropOutcomes(p) \/ AddOutcomes(p)
  BY <1>3, <1>12, <1>14, <1>15 DEF SaveMarket, SaveOutcomes, DropOutcomes, AddOutcomes, Deploying
<1> QED BY <1>5, <1>6, <1>7, <1>8, <1>9, <1>10, <1>11, <1>12 DEF Proceeds

(* One run becomes another that fits; the others stay.                      *)
LEMMA TaskFitsInv ==
    ASSUME TypeOK, TaskInv, NEW p \in Procs, NEW t \in Task, TaskFits(t), task' = [task EXCEPT ![p] = t]
    PROVE  TaskInv'
BY DEF TypeOK, TaskInv, Deploying, TaskFits

(* Every step takes a run to an await of what it does.                      *)
LEMMA TaskNext == ASSUME TypeOK, TaskInv, [Next]_vars PROVE TaskInv'
<1>1. CASE UNCHANGED task
  BY <1>1 DEF TaskInv, TaskFits
<1>2. ASSUME NEW p \in Cron, CronStarts(p) PROVE TaskInv'
  <2>1. p \in Procs /\ TypeOK'
    BY <1>2, TypeCron DEF Procs
  <2> QED BY <1>2, <2>1 DEF CronStarts, Start, Idle, TypeOK, TaskInv, TaskFits
<1>3. ASSUME NEW p \in Requests, Request(p) PROVE TaskInv'
  <2>1. PICK t \in Task : TaskFits(t) /\ Start(p, t)
    <3>1. ASSUME NEW q \in Questions, NEW date \in 0 .. MaxTime, Creates(p, q, date)
          PROVE  \E t \in Task : TaskFits(t) /\ Start(p, t)
      <4>1. [Idle EXCEPT !.op = "create", !.at = "reserve", !.question = q, !.start = date] \in Task
        BY IdleType DEF Task
      <4> QED BY <3>1, <4>1 DEF Creates, Deploying, TaskFits, Idle
    <3>2. ASSUME NEW b \in Base, NEW q \in Questions, NEW date \in 0 .. MaxTime, NEW o \in BOOLEAN,
                 Updates(p, b, q, date, o)
          PROVE  \E t \in Task : TaskFits(t) /\ Start(p, t)
      <4>1. [Idle EXCEPT !.op = "update", !.at = IF o THEN "drop" ELSE "update",
                         !.base = b, !.question = q, !.start = date] \in Task
        BY IdleType DEF Task
      <4> QED BY <3>2, <4>1 DEF Updates, Deploying, TaskFits, Idle
    <3> QED BY <1>3, <3>1, <3>2 DEF Request
  <2> QED BY <2>1, TaskFitsInv DEF Procs, Start
<1>4. ASSUME NEW p \in Procs, Proceeds(p) PROVE TaskInv'
  BY <1>4, TaskStep, TaskFitsInv DEF OneFits
<1>5. ASSUME NEW p \in Procs, Fails(p) PROVE TaskInv'
  <2>1. task[p] \in Task /\ TaskFits(task[p])
    BY DEF TypeOK, TaskInv, TaskFits
  <2>2. Thrown(task[p]) \in Task /\ TaskFits(Thrown(task[p]))
    BY <2>1, EndedType, EndedFits
  <2> QED BY <1>5, <2>2, TaskFitsInv DEF Fails, Throws
<1>6. CASE Crash
  BY <1>6 DEF Crash, Idle, Deploying, TaskInv, TaskFits
<1> QED BY <1>1, <1>2, <1>3, <1>4, <1>5, <1>6 DEF Next, Tick, Removes, vars

-----------------------------------------------------------------------------
(* What the other steps leave alone                                        *)

AtMarket == {"market", "outcomes", "delete"}

(* A step that is none of the three that create a contract and save its     *)
(* rows: it takes no run to their awaits, and from them only by a fault.    *)
Calm ==
    /\ UNCHANGED <<markets, contracts>>
    /\ \A q \in Procs : task'[q].at \in AtMarket => task'[q] = task[q]
    /\ faults' = 0 =>
         /\ faults = 0
         /\ \A q \in Procs : task[q].at \in {"market", "outcomes"} => task'[q] = task[q]

(* A run that has ended stands at no await of its market.                   *)
LEMMA EndedAway ==
    ASSUME NEW t \in Task
    PROVE  Ended(t).at \notin AtMarket /\ Thrown(t).at \notin AtMarket
BY DEF Ended, Thrown, Idle, AtMarket

(* After a fault there has been one.                                        *)
LEMMA FaultCounts == ASSUME TypeOK, Fault PROVE faults' # 0
BY DeploymentBounds DEF TypeOK, Fault

(* A step of one run that takes it to none of these awaits.                 *)
LEMMA CalmOne ==
    ASSUME TypeOK, NEW p \in Procs, NEW t, t.at \notin AtMarket, task' = [task EXCEPT ![p] = t],
           UNCHANGED <<markets, contracts>>,
           (faults' = faults /\ task[p].at \notin {"market", "outcomes"}) \/ Fault
    PROVE  Calm
<1>1. \A q \in Procs : q # p => task'[q] = task[q]
  BY DEF TypeOK
<1>2. task'[p] = t
  BY DEF TypeOK
<1>3. CASE Fault
  BY <1>1, <1>2, <1>3, FaultCounts DEF Calm
<1>4. CASE faults' = faults /\ task[p].at \notin {"market", "outcomes"}
  BY <1>1, <1>2, <1>4 DEF Calm
<1> QED BY <1>3, <1>4

(* A run that ends elsewhere than at its market, or by a fault, is calm.    *)
LEMMA CalmEnds ==
    ASSUME TypeOK, NEW p \in Procs, Ends(p) \/ Throws(p), UNCHANGED <<markets, contracts>>,
           (faults' = faults /\ task[p].at \notin {"market", "outcomes"}) \/ Fault
    PROVE  Calm
<1>1. Ended(task[p]).at \notin AtMarket /\ Thrown(task[p]).at \notin AtMarket
  BY EndedAway, TaskTypes
<1>2. CASE Ends(p)
  BY <1>1, <1>2, CalmOne DEF Ends
<1>3. CASE Throws(p)
  BY <1>1, <1>3, CalmOne DEF Throws
<1> QED BY <1>2, <1>3

(* So is one that goes on to another await.                                 *)
LEMMA CalmThen ==
    ASSUME TypeOK, NEW p \in Procs, NEW at, Then(p, at), at \notin AtMarket,
           task[p].at \notin {"market", "outcomes"}, UNCHANGED <<markets, contracts, faults>>
    PROVE  Calm
<1>1. task' = [task EXCEPT ![p] = [task[p] EXCEPT !.at = at]]
  BY DEF Then
<1>2. [task[p] EXCEPT !.at = at].at = at
  BY DEF TypeOK, Task
<1> QED BY <1>1, <1>2, CalmOne

(* And one that calls a contract other than the factory.                    *)
LEMMA CalmMined ==
    ASSUME TypeOK, NEW p \in Procs, NEW at, Mined(p, [task[p] EXCEPT !.at = at]), at \notin AtMarket,
           task[p].at \notin {"market", "outcomes"}, UNCHANGED <<markets, contracts>>
    PROVE  Calm
<1>1. [task[p] EXCEPT !.at = at].at = at
  BY DEF TypeOK, Task
<1>2. CASE task' = [task EXCEPT ![p] = [task[p] EXCEPT !.at = at]] /\ UNCHANGED faults
  BY <1>1, <1>2, CalmOne
<1>3. CASE Throws(p) /\ Fault
  BY <1>3, CalmEnds
<1> QED BY <1>2, <1>3 DEF Mined

(* Of the steps of a run only three are not calm.                           *)
LEMMA CalmProceeds ==
    ASSUME TypeOK, NEW p \in Procs, Proceeds(p),
           ~ CreateMaker(p), ~ SaveMarket(p), ~ SaveOutcomes(p)
    PROVE  Calm
<1>1. CASE Reserve(p)
  <2>1. PICK b \in Base : task' = [task EXCEPT ![p] = [task[p] EXCEPT !.base = b, !.outcomes = TRUE,
                             !.at = IF task[p].start = 0 THEN "prepare" ELSE "reserveOutcomes"]]
    BY <1>1 DEF TypeOK, Reserve
  <2> DEFINE t == [task[p] EXCEPT !.base = b, !.outcomes = TRUE,
                             !.at = IF task[p].start = 0 THEN "prepare" ELSE "reserveOutcomes"]
  <2>2. t.at \notin AtMarket
    BY DEF TypeOK, Task, AtMarket
  <2> HIDE DEF t
  <2> QED BY <1>1, <2>1, <2>2, CalmOne DEF Reserve, chainVars, t
<1>2. CASE NextReservation(p)
  <2>1. PICK d \in task[p].todo :
          task' = [task EXCEPT ![p].todo = @ \ {d}, ![p].at = "prepare", ![p].base = d.base,
                               ![p].outcomes = d.outcomes, ![p].question = d.question]
    BY <1>2 DEF NextReservation
  <2> DEFINE t == [task[p] EXCEPT !.todo = @ \ {d}, !.at = "prepare", !.base = d.base,
                                  !.outcomes = d.outcomes, !.question = d.question]
  <2>2. task' = [task EXCEPT ![p] = t]
    BY <2>1
  <2>3. t.at \notin AtMarket
    BY DEF TypeOK, Task, AtMarket
  <2> HIDE DEF t
  <2> QED BY <1>2, <2>2, <2>3, CalmOne DEF NextReservation, dbVars, chainVars
<1>3. CASE ReserveOutcomes(p) \/ Cleanup(p) \/ Deletes(p) \/ SaveReservation(p) \/ MakerRefused(p)
  BY <1>3, CalmEnds DEF ReserveOutcomes, Cleanup, Deletes, SaveReservation, MakerRefused, dbVars, chainVars
<1>4. CASE Prepare(p) \/ Funds(p) \/ DropOutcomes(p) \/ AddOutcomes(p)
  BY <1>4, CalmEnds, CalmThen DEF Prepare, Funds, DropOutcomes, AddOutcomes, dbVars, chainVars, AtMarket
<1>5. CASE Deposit(p) \/ Approve(p)
  BY <1>5, CalmMined DEF Deposit, Approve, dbVars, AtMarket
<1> QED BY <1>1, <1>2, <1>3, <1>4, <1>5 DEF Proceeds

(* A run that starts was idle.                                             *)
LEMMA CalmStart ==
    ASSUME TypeOK, TaskInv, NEW p \in Procs, NEW t, t.at \notin AtMarket, Start(p, t),
           UNCHANGED <<markets, contracts, faults>>
    PROVE  Calm
<1>1. task[p].at = "idle"
  BY DEF Start, TaskInv, TaskFits
<1> QED BY <1>1, CalmOne DEF Start

(* Nor are others of the system.                                            *)
LEMMA CalmNext ==
    ASSUME TypeOK, TaskInv, [Next]_vars,
           ~ \E p \in Procs : CreateMaker(p) \/ SaveMarket(p) \/ SaveOutcomes(p)
    PROVE  Calm
<1>1. CASE UNCHANGED <<task, markets, contracts, faults>>
  BY <1>1 DEF Calm
<1>2. ASSUME NEW p \in Cron, CronStarts(p) PROVE Calm
  BY <1>2, CalmStart DEF Procs, CronStarts, Idle, dbVars, chainVars, AtMarket
<1>3. ASSUME NEW p \in Requests, NEW q \in Questions, NEW date \in 0 .. MaxTime, Creates(p, q, date)
      PROVE  Calm
  BY <1>3, CalmStart DEF Procs, Creates, Idle, dbVars, chainVars, AtMarket
<1>4. ASSUME NEW p \in Requests, NEW b \in Base, NEW q \in Questions, NEW date \in 0 .. MaxTime,
             NEW o \in BOOLEAN, Updates(p, b, q, date, o)
      PROVE  Calm
  BY <1>4, CalmStart DEF Procs, Updates, Idle, dbVars, chainVars, AtMarket
<1>5. ASSUME NEW p \in Procs, Fails(p) PROVE Calm
  BY <1>5, CalmEnds DEF Fails, dbVars, chainVars
<1>6. CASE Crash
  BY <1>6, FaultCounts DEF Crash, Calm, Idle, dbVars, chainVars, AtMarket
<1> QED BY <1>1, <1>2, <1>3, <1>4, <1>5, <1>6, CalmProceeds
        DEF Next, Tick, Removes, Request, vars, dbVars, chainVars

-----------------------------------------------------------------------------
(* Reservations that are deleted                                           *)

(* The three steps that are not calm.                                      *)
LEMMA CreateMakerStep ==
    ASSUME TypeOK, NEW p \in Procs, CreateMaker(p)
    PROVE  /\ contracts' = [contracts EXCEPT ![task[p].base] = @ + 1]
           /\ markets' = markets
           /\ task[p].at = "create"
           /\ \A q \in Procs : q # p => task'[q] = task[q]
           /\ \/ /\ task'[p] = [task[p] EXCEPT !.at = "market", !.no = contracts'[task[p].base]]
                 /\ faults' = faults
              \/ task'[p].at \notin AtMarket /\ Fault
<1>1. Thrown(task[p]).at \notin AtMarket
  BY EndedAway, TaskTypes
<1> QED BY <1>1 DEF TypeOK, CreateMaker, Mined, Throws, dbVars

(* A run that goes on keeps what it works on.                               *)
LEMMA AtFields ==
    ASSUME NEW t \in Task, NEW a
    PROVE  LET u == [t EXCEPT !.at = a] IN
           /\ u.at = a /\ u.op = t.op /\ u.base = t.base /\ u.no = t.no /\ u.todo = t.todo
           /\ NewMarket(u) = NewMarket(t)
BY DEF Task, NewMarket

(* The row is inserted, and the run goes on to its outcomes.                *)
LEMMA SaveMarketStep ==
    ASSUME TypeOK, NEW p \in Procs, SaveMarket(p)
    PROVE  /\ UNCHANGED <<contracts, faults>>
           /\ markets' = markets \union {NewMarket(task[p])}
           /\ task[p].at = "market" /\ task'[p].at = "outcomes"
           /\ NewMarket(task'[p]) = NewMarket(task[p])
           /\ task'[p].base = task[p].base /\ task'[p].no = task[p].no
           /\ \A q \in Procs : q # p => task'[q] = task[q]
<1>1. task'[p] = [task[p] EXCEPT !.at = "outcomes"] /\ task[p] \in Task
  BY DEF TypeOK, SaveMarket, Then
<1>2. \A q \in Procs : q # p => task'[q] = task[q]
  BY DEF TypeOK, SaveMarket, Then
<1> QED BY <1>1, <1>2, AtFields DEF SaveMarket, chainVars

(* The market of a run with its outcomes saved.                            *)
Done(p) == [NewMarket(task[p]) EXCEPT !.outcomes = TRUE]

(* What tells a row with outcomes from the one without.                     *)
LEMMA DoneFields ==
    ASSUME NEW p
    PROVE  /\ ~ NewMarket(task[p]).outcomes /\ Done(p).outcomes
           /\ NewMarket(task[p]).base = task[p].base /\ NewMarket(task[p]).no = task[p].no
           /\ Done(p).base = task[p].base /\ Done(p).no = task[p].no
BY DEF Done, NewMarket

(* The row without outcomes becomes one with them.                          *)
LEMMA SaveOutcomesStep ==
    ASSUME TypeOK, NEW p \in Procs, SaveOutcomes(p)
    PROVE  /\ UNCHANGED <<contracts, faults>>
           /\ \A m \in markets : m # NewMarket(task[p]) => m \in markets'
           /\ NewMarket(task[p]) \in markets => Done(p) \in markets'
           /\ \A m \in markets' :
                \/ m \in markets /\ m # NewMarket(task[p])
                \/ m = Done(p) /\ NewMarket(task[p]) \in markets
           /\ task[p].at = "outcomes" /\ task'[p].at = "delete"
           /\ task'[p].base = task[p].base
           /\ \A q \in Procs : q # p => task'[q] = task[q]
<1>1. task'[p] = [task[p] EXCEPT !.at = "delete"] /\ task[p] \in Task
  BY DEF TypeOK, SaveOutcomes, Then
<1>2. \A q \in Procs : q # p => task'[q] = task[q]
  BY DEF TypeOK, SaveOutcomes, Then
<1>3. markets' = {IF m = NewMarket(task[p]) THEN Done(p) ELSE m : m \in markets}
  BY DEF SaveOutcomes, Done
<1>4. /\ \A m \in markets : m # NewMarket(task[p]) => m \in markets'
      /\ NewMarket(task[p]) \in markets => Done(p) \in markets'
      /\ \A m \in markets' :
           \/ m \in markets /\ m # NewMarket(task[p])
           \/ m = Done(p) /\ NewMarket(task[p]) \in markets
  BY <1>3
<1> QED BY <1>1, <1>2, <1>4, AtFields DEF SaveOutcomes, chainVars

(* Complete markets stay.                                                  *)
CompleteIn(ms, b) == \E m \in ms : m.base = b /\ m.outcomes

(* Nothing is deployed at the start.                                        *)
LEMMA LostInit == Init => LostInv
BY DEF Init, LostInv, Idle

(* Rows of markets grow only; only the saves bring a run to what the        *)
(* invariant speaks of.                                                     *)
LEMMA LostNext == ASSUME TypeOK, TaskInv, LostInv, [Next]_vars PROVE LostInv'
<1> USE DEF Complete
<1>1. CASE Calm
  BY <1>1 DEF LostInv, Calm, AtMarket
<1>2. ASSUME NEW p \in Procs, CreateMaker(p) PROVE LostInv'
  <2>1. \A q \in Procs : task'[q].at \in {"outcomes", "delete"} => task'[q] = task[q]
    BY <1>2, CreateMakerStep DEF TypeOK, Task, AtMarket
  <2> QED BY <1>2, <2>1, CreateMakerStep DEF LostInv
<1>3. ASSUME NEW p \in Procs, SaveMarket(p) PROVE LostInv'
  <2>1. markets \subseteq markets' /\ NewMarket(task'[p]) \in markets'
    BY <1>3, SaveMarketStep
  <2>2. \A q \in Procs : q # p => task'[q] = task[q]
    BY <1>3, SaveMarketStep
  <2>3. task'[p].at = "outcomes"
    BY <1>3, SaveMarketStep
  <2> QED BY <2>1, <2>2, <2>3 DEF LostInv
<1>4. ASSUME NEW p \in Procs, SaveOutcomes(p) PROVE LostInv'
  <2> DEFINE new == NewMarket(task[p])
  <2>1. \A m \in markets : m.outcomes => m \in markets'
    BY <1>4, SaveOutcomesStep, DoneFields
  <2>2. \A b : CompleteIn(markets, b) => CompleteIn(markets', b)
    BY <2>1 DEF CompleteIn
  <2>3. new \in markets => CompleteIn(markets', task[p].base)
    BY <1>4, SaveOutcomesStep, DoneFields DEF CompleteIn
  <2>4. CompleteIn(markets', task[p].base)
    BY <1>4, <2>2, <2>3, SaveOutcomesStep DEF LostInv, CompleteIn
  <2>5. ASSUME NEW q \in Procs, task[q].at = "outcomes"
        PROVE  NewMarket(task[q]) \in markets' \/ CompleteIn(markets', task[q].base)
    <3>1. CASE NewMarket(task[q]) = new
      <4>1. task[q].base = task[p].base
        BY <3>1, DoneFields
      <4> QED BY <2>4, <4>1
    <3>2. CASE NewMarket(task[q]) # new
      <4>1. NewMarket(task[q]) \in markets \/ CompleteIn(markets, task[q].base)
        BY <2>5 DEF LostInv, CompleteIn
      <4> QED BY <1>4, <2>2, <3>2, <4>1, SaveOutcomesStep
    <3> QED BY <3>1, <3>2
  <2>6. \A q \in Procs : task[q].at = "delete" => CompleteIn(markets', task[q].base)
    BY <2>2 DEF LostInv, CompleteIn
  <2>7. task'[p].at = "delete" /\ task'[p].base = task[p].base
    BY <1>4, SaveOutcomesStep
  <2>8. \A q \in Procs : q # p => task'[q] = task[q]
    BY <1>4, SaveOutcomesStep
  <2>9. ASSUME NEW q \in Procs
        PROVE  /\ task'[q].at = "outcomes" =>
                    NewMarket(task'[q]) \in markets' \/ CompleteIn(markets', task'[q].base)
               /\ task'[q].at = "delete" => CompleteIn(markets', task'[q].base)
    BY <2>4, <2>5, <2>6, <2>7, <2>8
  <2> QED BY <2>9 DEF LostInv, CompleteIn
<1> QED BY <1>1, <1>2, <1>3, <1>4, CalmNext

(* Only the last step of a deployment deletes a reservation with a date.    *)
LEMMA DeletedByDeployment ==
    ASSUME TypeOK, [Next]_vars, NEW b \in Base,
           base[b].row = "live", base[b].start # 0, base'[b].row = "deleted"
    PROVE  \E p \in Procs : Deletes(p) /\ task[p].base = b
<1>1. base' # base
  OBVIOUS
<1>2. ~ \E c \in Base : Removes(c)
  BY DEF Removes, TypeOK, Reservation
<1>3. PICK p \in Procs : Proceeds(p)
  BY <1>1, <1>2 DEF Next, Tick, CronStarts, Request, Creates, Updates, Fails, Crash, vars, dbVars
<1>4. ~ InsertOutcomes(p)
  BY <1>1 DEF InsertOutcomes, TypeOK, Reservation
<1>5. ~ Reserve(p)
  BY <1>1 DEF Reserve, TypeOK, Reservation, Unused
<1>6. ~ Cleanup(p)
  BY DEF Cleanup, Cleaned
<1>7. ~ DropOutcomes(p)
  BY DEF DropOutcomes, TypeOK, Reservation
<1>8. ~ SaveReservation(p)
  BY DEF SaveReservation, TypeOK, Reservation
<1>9. Deletes(p)
  BY <1>1, <1>3, <1>4, <1>5, <1>6, <1>7, <1>8
     DEF Proceeds, ReserveOutcomes, NextReservation, Prepare, Funds, Deposit, Approve, CreateMaker,
         MakerRefused, SaveMarket, SaveOutcomes, AddOutcomes, dbVars
<1>10. task[p].base = b
  BY <1>9 DEF Deletes, TypeOK, Reservation
<1> QED BY <1>9, <1>10

(* A reservation that has a start time vanishes when its run deletes it,    *)
(* which is when its market is complete.                                    *)
LEMMA ReservationStep ==
    ASSUME TypeOK, LostInv, [Next]_vars, NEW b \in Base,
           base[b].row = "live", base[b].start # 0, base'[b].row = "deleted"
    PROVE  Complete(b)'
<1>1. PICK p \in Procs : Deletes(p) /\ task[p].base = b
  BY DeletedByDeployment
<1> QED BY <1>1 DEF LostInv, Deletes, Complete

-----------------------------------------------------------------------------
(* Contracts without a row                                                 *)

(* There are no contracts at the start.                                     *)
LEMMA OrphanInit == Init => OrphanInv
<1> SUFFICES ASSUME Init PROVE OrphanInv
  OBVIOUS
<1>1. \A p \in Procs : task[p].at = "idle"
  BY DEF Init, Idle
<1>2. markets = {} /\ \A b \in Base : contracts[b] = 0
  BY DEF Init
<1> QED BY <1>1, <1>2 DEF OrphanInv, RowNumbers, RunNumbers, RunRows, ContractsCovered, RowsCovered,
           AtRows

(* The types the arithmetic of the numbers needs.                          *)
LEMMA OrphanTypes ==
    ASSUME TypeOK
    PROVE  /\ \A q \in Procs : task[q].base \in Base /\ task[q].no \in Nat
           /\ \A m \in markets : m.base \in Base /\ m.no \in Nat
           /\ contracts \in [Base -> Nat]
BY DEF TypeOK, Task, Market

(* A calm step changes no contract, no row and no run at a save.            *)
LEMMA OrphanCalm ==
    ASSUME Calm, OrphanInv, faults' = 0
    PROVE  OrphanInv'
<1>1. \A q \in Procs : task[q].at \in AtRows \/ task'[q].at \in AtRows => task'[q] = task[q]
  BY DEF Calm, AtMarket, AtRows
<1>2. UNCHANGED <<markets, contracts>> /\ faults = 0
  BY DEF Calm
<1>3. \A q \in Procs : \A b, n : SavesMarket(q, b, n) => SavesMarket(q, b, n)'
  BY <1>1 DEF SavesMarket, AtRows
<1>4. \A q \in Procs : \A m : SavesOutcomes(q, m) => SavesOutcomes(q, m)'
  BY <1>1 DEF SavesOutcomes, AtRows
<1> USE <1>2 DEF OrphanInv
<1>5. RowNumbers'
  BY DEF RowNumbers
<1>6. RunNumbers'
  BY <1>1 DEF RunNumbers
<1>7. RunRows'
  BY <1>1 DEF RunRows, AtRows
<1>8. ContractsCovered'
  BY <1>3 DEF ContractsCovered
<1>9. RowsCovered'
  BY <1>4 DEF RowsCovered
<1> QED BY <1>5, <1>6, <1>7, <1>8, <1>9

(* The new contract has the next number, and the run that will save it.     *)
LEMMA OrphanCreates ==
    ASSUME TypeOK, OrphanInv, faults' = 0, NEW p \in Procs, CreateMaker(p)
    PROVE  OrphanInv'
<1> DEFINE b == task[p].base
           k == contracts[b] + 1
<1>1. /\ task'[p].at = "market" /\ task'[p].base = b /\ task'[p].no = k
      /\ task[p].at = "create" /\ faults = 0
  <2>1. task[p] \in Task /\ b \in Base
    BY DEF TypeOK, Task
  <2>2. contracts'[b] = k
    BY <2>1, CreateMakerStep DEF TypeOK
  <2> QED BY <2>1, <2>2, CreateMakerStep, FaultCounts DEF Task
<1>2. /\ \A q \in Procs : q # p => task'[q] = task[q]
      /\ markets' = markets
  BY CreateMakerStep
<1>3. /\ b \in Base /\ k \in Nat /\ contracts'[b] = k
      /\ \A c \in Base : c # b => contracts'[c] = contracts[c]
  <2>1. b \in Base /\ contracts \in [Base -> Nat]
    BY OrphanTypes
  <2>2. contracts' = [contracts EXCEPT ![b] = @ + 1]
    BY CreateMakerStep
  <2> HIDE DEF b
  <2> QED BY <2>1, <2>2
<1>4. \A c \in Base : contracts[c] \in Nat /\ contracts'[c] \in Nat /\ contracts[c] <= contracts'[c]
  BY <1>3, OrphanTypes
<1> HIDE DEF b, k
<1> USE <1>1 DEF OrphanInv
<1>5. RowNumbers'
  BY <1>2, <1>4, OrphanTypes DEF RowNumbers
<1>6. \A q \in Procs : q # p /\ task[q].at \in AtRows => task[q].no <= contracts[task[q].base]
  BY OrphanTypes DEF RunNumbers
<1>7. RunNumbers'
  <2>1. ASSUME NEW q \in Procs, task'[q].at \in AtRows PROVE task'[q].no \in 1 .. contracts'[task'[q].base]
    <3>1. CASE q = p
      BY <1>1, <1>3, <1>4, <3>1, OrphanTypes DEF k, b
    <3>2. CASE q # p
      BY <1>2, <1>4, <2>1, <3>2, OrphanTypes DEF RunNumbers
    <3> QED BY <3>1, <3>2
  <2>2. ASSUME NEW q \in Procs, q # p, task'[q].at \in AtRows PROVE ~ SameNo(task'[q], task'[p])
    BY <1>1, <1>2, <1>3, <1>6, <2>2, OrphanTypes DEF SameNo, k, b
  <2>3. ASSUME NEW q \in Procs, NEW r \in Procs, task'[q].at \in AtRows, task'[r].at \in AtRows,
               SameNo(task'[q], task'[r])
        PROVE  q = r
    <3>1. CASE q # p /\ r # p
      BY <1>2, <2>3, <3>1 DEF RunNumbers
    <3>2. CASE q = p \/ r = p
      BY <2>2, <2>3, <3>2 DEF SameNo
    <3> QED BY <3>1, <3>2
  <2> QED BY <2>1, <2>3 DEF RunNumbers
<1>8. RunRows'
  <2>1. \A m \in markets : ~ SameNo(m, task'[p])
    BY <1>1, <1>3, OrphanTypes DEF RowNumbers, SameNo, k, b
  <2> QED BY <1>1, <1>2, <2>1 DEF RunRows
<1>9. ContractsCovered'
  <2> SUFFICES ASSUME NEW c \in Base, NEW n \in 1 .. contracts'[c]
               PROVE  \/ \E m \in markets' : m.base = c /\ m.no = n
                      \/ \E q \in Procs : SavesMarket(q, c, n)'
    BY DEF ContractsCovered
  <2>1. CASE c = b /\ n = k
    <3>1. SavesMarket(p, c, n)'
      BY <1>1, <2>1 DEF SavesMarket
    <3> QED BY <3>1
  <2>2. CASE ~ (c = b /\ n = k)
    <3>1. n \in 1 .. contracts[c]
      BY <1>3, <2>2, OrphanTypes DEF k
    <3>2. \A q \in Procs : SavesMarket(q, c, n) => SavesMarket(q, c, n)'
      BY <1>1, <1>2 DEF SavesMarket
    <3> QED BY <1>2, <3>1, <3>2 DEF ContractsCovered
  <2> QED BY <2>1, <2>2
<1>10. RowsCovered'
  <2>1. \A q \in Procs : \A m : SavesOutcomes(q, m) => SavesOutcomes(q, m)'
    BY <1>1, <1>2 DEF SavesOutcomes
  <2> QED BY <1>2, <2>1 DEF RowsCovered
<1> QED BY <1>5, <1>7, <1>8, <1>9, <1>10

(* The row takes the place of the run at its first save.                    *)
LEMMA OrphanSavesMarket ==
    ASSUME TypeOK, OrphanInv, faults' = 0, NEW p \in Procs, SaveMarket(p)
    PROVE  OrphanInv'
<1> DEFINE new == NewMarket(task[p])
<1>1. /\ task[p].at = "market" /\ task'[p].at = "outcomes" /\ NewMarket(task'[p]) = new
      /\ SameNo(new, task[p]) /\ SameNo(new, task'[p])
      /\ UNCHANGED contracts /\ faults = 0
      /\ markets' = markets \union {new}
      /\ \A q \in Procs : q # p => task'[q] = task[q]
  BY SaveMarketStep, DoneFields DEF SameNo
<1>2. new.no \in 1 .. contracts[new.base] /\ \A m \in markets : ~ SameNo(m, new)
  BY <1>1 DEF OrphanInv, RunNumbers, RunRows, AtRows, SameNo
<1> HIDE DEF new
<1> USE <1>1 DEF OrphanInv
<1>3. RowNumbers'
  BY <1>2 DEF RowNumbers, SameNo
<1>4. RunNumbers'
  <2>1. \A q \in Procs : task'[q].at \in AtRows => task[q].at \in AtRows
    BY DEF AtRows
  <2>2. \A q \in Procs : SameNo(task[q], task'[q])
    BY DEF SameNo
  <2> QED BY <2>1, <2>2 DEF RunNumbers, SameNo
<1>5. RunRows'
  <2>1. ASSUME NEW q \in Procs, task'[q].at = "market" PROVE ~ SameNo(new, task'[q])
    BY <2>1 DEF RunNumbers, SameNo, AtRows
  <2> QED BY <2>1 DEF RunRows
<1>6. ContractsCovered'
  <2>1. \A q \in Procs : \A b, n : SavesMarket(q, b, n) => SavesMarket(q, b, n)' \/ (new.base = b /\ new.no = n)
    BY DEF SavesMarket, SameNo
  <2> QED BY <2>1 DEF ContractsCovered
<1>7. RowsCovered'
  <2>1. task'[p].at = "outcomes" /\ NewMarket(task'[p]) = new
    OBVIOUS
  <2>2. ASSUME NEW q \in Procs, NEW m \in markets, SavesOutcomes(q, m) PROVE SavesOutcomes(q, m)'
    BY <2>2 DEF SavesOutcomes
  <2>3. ASSUME NEW m \in markets' PROVE m.outcomes \/ \E q \in Procs : SavesOutcomes(q, m)'
    <3>1. CASE m = new
      BY <2>1, <3>1 DEF SavesOutcomes
    <3>2. CASE m \in markets
      BY <2>2, <3>2 DEF RowsCovered
    <3> QED BY <3>1, <3>2
  <2> QED BY <2>3 DEF RowsCovered
<1> QED BY <1>3, <1>4, <1>5, <1>6, <1>7

(* The row with outcomes takes the place of the one without, and of the     *)
(* run.                                                                     *)
LEMMA OrphanSavesOutcomes ==
    ASSUME TypeOK, OrphanInv, faults' = 0, NEW p \in Procs, SaveOutcomes(p)
    PROVE  OrphanInv'
<1> DEFINE new == NewMarket(task[p])
           done == Done(p)
<1>1. /\ task[p].at = "outcomes" /\ task'[p].at = "delete"
      /\ UNCHANGED contracts /\ faults = 0
      /\ \A q \in Procs : q # p => task'[q] = task[q]
  BY SaveOutcomesStep
<1>2. /\ SameNo(new, task[p]) /\ SameNo(done, new) /\ done.outcomes
      /\ new \in markets /\ done \in markets'
      /\ \A m \in markets : m # new => m \in markets'
      /\ \A m \in markets' : m = done \/ (m \in markets /\ m # new)
  BY <1>1, SaveOutcomesStep, DoneFields DEF SameNo, OrphanInv, RunRows
<1> HIDE DEF new, done
<1> USE <1>1, <1>2 DEF OrphanInv
<1>3. RowNumbers'
  BY DEF RowNumbers, SameNo
<1>4. RunNumbers'
  BY DEF RunNumbers, SameNo, AtRows
<1>5. RunRows'
  <2>1. ASSUME NEW q \in Procs, task'[q].at = "market" PROVE \A m \in markets' : ~ SameNo(m, task'[q])
    BY <2>1 DEF RunRows, SameNo
  <2>2. ASSUME NEW q \in Procs, task'[q].at = "outcomes" PROVE NewMarket(task'[q]) \in markets'
    <3>1. q # p /\ task'[q] = task[q] /\ NewMarket(task[q]) \in markets
      BY <2>2 DEF RunRows
    <3>2. ~ SameNo(task[q], task[p])
      BY <2>2, <3>1 DEF RunNumbers, AtRows
    <3>3. SameNo(NewMarket(task[q]), task[q])
      BY DoneFields DEF SameNo
    <3> QED BY <3>1, <3>2, <3>3 DEF SameNo
  <2> QED BY <2>1, <2>2 DEF RunRows
<1>6. ContractsCovered'
  <2>1. \A q \in Procs : \A b, n : SavesMarket(q, b, n) => SavesMarket(q, b, n)'
    BY DEF SavesMarket
  <2>2. \A m \in markets : \E n \in markets' : SameNo(m, n)
    BY DEF SameNo
  <2> QED BY <2>1, <2>2 DEF ContractsCovered, SameNo
<1>7. RowsCovered'
  <2>1. ASSUME NEW q \in Procs, NEW m \in markets, m # new, SavesOutcomes(q, m) PROVE SavesOutcomes(q, m)'
    BY <2>1 DEF SavesOutcomes, new
  <2> QED BY <2>1 DEF RowsCovered
<1> QED BY <1>3, <1>4, <1>5, <1>6, <1>7

(* Without a fault every step is one of these.                              *)
LEMMA OrphanNext == ASSUME TypeOK, TaskInv, OrphanInv, [Next]_vars PROVE OrphanInv'
<1> SUFFICES ASSUME faults' = 0 PROVE OrphanInv'
  BY DEF OrphanInv
<1> QED BY CalmNext, OrphanCalm, OrphanCreates, OrphanSavesMarket, OrphanSavesOutcomes

-----------------------------------------------------------------------------
(* Runs that do not overlap                                                *)

(* Only a run that does something goes on or fails.                         *)
LEMMA NotIdle ==
    ASSUME TaskInv, NEW p \in Procs, Proceeds(p) \/ Fails(p)
    PROVE  task[p].op # "none"
<1>1. CASE Proceeds(p)
  <2>1. task[p].at # "idle"
    BY <1>1 DEF Proceeds, Reserve, ReserveOutcomes, Cleanup, NextReservation, Prepare, Funds, Deposit,
        Approve, CreateMaker, MakerRefused, SaveMarket, SaveOutcomes, Deletes, DropOutcomes,
        AddOutcomes, SaveReservation
  <2> QED BY <2>1 DEF TaskInv, TaskFits
<1>2. CASE Fails(p)
  BY <1>2 DEF Fails
<1> QED BY <1>1, <1>2

(* A step of one run changes no other task.                                *)
LEMMA OneTask ==
    ASSUME TypeOK, TaskInv, NEW p \in Procs, Proceeds(p) \/ Fails(p)
    PROVE  \A q \in Procs : q # p => task'[q] = task[q]
<1>1. CASE Proceeds(p)
  BY <1>1, TaskStep DEF TypeOK, OneFits
<1>2. CASE Fails(p)
  BY <1>2 DEF TypeOK, Fails, Throws
<1> QED BY <1>1, <1>2

(* Runs that start while another is active overlap; the others do not start *)
(* any.                                                                     *)
LEMMA AloneNext ==
    ASSUME TypeOK, TaskInv, ~overlapped => Alone, [Next]_vars, ~overlapped'
    PROVE  ~overlapped /\ Alone'
<1>1. ASSUME NEW p \in Procs, NEW t \in Task, Start(p, t) PROVE ~overlapped /\ Alone'
  <2>1. ~overlapped /\ \A q \in Procs : task[q].op = "none"
    BY <1>1 DEF Start
  <2>2. \A q \in Procs : q # p => task'[q].op = "none"
    BY <1>1, <2>1 DEF Start, TypeOK
  <2> QED BY <2>1, <2>2 DEF Alone
<1>2. ASSUME NEW p \in Cron, CronStarts(p) PROVE ~overlapped /\ Alone'
  <2>1. p \in Procs /\ task'[p] \in Task
    BY <1>2, TypeCron DEF Procs, TypeOK
  <2> QED BY <1>1, <1>2, <2>1 DEF CronStarts, Start, TypeOK
<1>3. ASSUME NEW p \in Requests, Request(p) PROVE ~overlapped /\ Alone'
  <2>1. p \in Procs /\ task'[p] \in Task
    BY <1>3, TypeRequest DEF Procs, TypeOK
  <2> QED BY <1>1, <1>3, <2>1 DEF Request, Creates, Updates, Start, TypeOK
<1>4. ASSUME NEW p \in Procs, Proceeds(p) \/ Fails(p) PROVE ~overlapped /\ Alone'
  <2>1. overlapped' = overlapped
    BY <1>4 DEF Proceeds, Fails, Reserve, ReserveOutcomes, Cleanup, NextReservation, Prepare, Funds,
        Deposit, Approve, CreateMaker, MakerRefused, SaveMarket, SaveOutcomes, Deletes, DropOutcomes,
        AddOutcomes, SaveReservation
  <2>2. \A q \in Procs : q # p => task'[q].op = "none"
    BY <1>4, <2>1, NotIdle, OneTask DEF Alone
  <2> QED BY <2>1, <2>2 DEF Alone
<1>5. CASE Crash
  BY <1>5 DEF Crash, Idle, Alone
<1>6. CASE UNCHANGED <<task, overlapped>>
  BY <1>6 DEF Alone
<1> QED BY <1>2, <1>3, <1>4, <1>5, <1>6 DEF Next, Tick, Removes, vars

-----------------------------------------------------------------------------
(* Questions                                                               *)

(* Nobody asks what nobody asked.                                           *)
NoNewAsks == \A b \in Base, q \in Questions : Asks(b, q)' => Asks(b, q)
NoNewFind == \A p \in Procs : task'[p].at = "reserve" => task'[p] = task[p]

(* Steps after which nobody asks anything new keep the questions apart.      *)
LEMMA UniqueKept ==
    ASSUME TypeOK, UniqueInv, ~overlapped' => ~overlapped /\ Alone', NoNewAsks, NoNewFind
    PROVE  UniqueInv'
<1> SUFFICES ASSUME ~overlapped' PROVE AsksDiffer' /\ Found'
  BY DEF UniqueInv
<1>1. AsksDiffer'
  BY DEF UniqueInv, AsksDiffer, NoNewAsks
<1>2. ASSUME NEW p \in Procs, NEW b \in Base, NEW q \in Questions,
             task'[p].at = "reserve", task'[p].question = q
      PROVE  ~ Asks(b, q)'
  BY <1>2 DEF NoNewFind, UniqueInv, Found, NoNewAsks
<1> QED BY <1>1, <1>2 DEF Found

(* So do those after which one reservation asks what only it may ask.        *)
LEMMA UniqueAdds ==
    ASSUME UniqueInv, ~overlapped' => ~overlapped /\ Alone',
           NEW b \in Base, NEW q \in Questions,
           ~overlapped => \A c \in Base : Asks(c, q) => c = b,
           \A c \in Base, x \in Questions : Asks(c, x)' => Asks(c, x) \/ (c = b /\ x = q),
           \A p \in Procs : task'[p].at # "reserve"
    PROVE  UniqueInv'
<1> SUFFICES ASSUME ~overlapped' PROVE AsksDiffer' /\ Found'
  BY DEF UniqueInv
<1>1. AsksDiffer'
  BY DEF UniqueInv, AsksDiffer
<1> QED BY <1>1 DEF Found

(* A run that has ended deals with what it has still to do, if anything.    *)
LEMMA EndedDeals ==
    ASSUME TypeOK, NEW p \in Procs, Ends(p) \/ Throws(p)
    PROVE  /\ task'[p].at # "reserve"
           /\ \A b, q : Deals(p, b, q)' => Deals(p, b, q)
<1>1. \A t : /\ Ended(t).at \in {"idle", "next"} /\ Thrown(t).at \in {"idle", "next", "cleanup"}
             /\ Ended(t).op = "cron" => t.op = "cron" /\ Ended(t).todo = t.todo
             /\ Thrown(t).op = "cron" => t.op = "cron" /\ Thrown(t).todo = t.todo
  BY DEF Ended, Thrown, Idle
<1>2. task'[p] = Ended(task[p]) \/ task'[p] = Thrown(task[p])
  BY DEF TypeOK, Ends, Throws
<1> QED BY <1>1, <1>2 DEF Deals, Bringing, Deploying

(* A run that goes on deals with the same.                                  *)
LEMMA FieldDeals ==
    ASSUME TypeOK, NEW p \in Procs, NEW at, at # "reserve", NEW n,
           task[p].at \in Bringing,
           \/ Then(p, at)
           \/ Mined(p, [task[p] EXCEPT !.at = at])
           \/ Mined(p, [task[p] EXCEPT !.at = at, !.no = n])
    PROVE  /\ task'[p].at # "reserve"
           /\ \A b, q : Deals(p, b, q)' => Deals(p, b, q)
<1>1. CASE Throws(p)
  BY <1>1, EndedDeals
<1>2. CASE task'[p] = [task[p] EXCEPT !.at = at] \/ task'[p] = [task[p] EXCEPT !.at = at, !.no = n]
  <2>1. /\ task'[p].at = at /\ task'[p].op = task[p].op /\ task'[p].base = task[p].base
        /\ task'[p].question = task[p].question /\ task'[p].todo = task[p].todo
    BY <1>2 DEF TypeOK, Task
  <2> QED BY <2>1 DEF Deals
<1>3. \/ Throws(p)
      \/ task'[p] = [task[p] EXCEPT !.at = at]
      \/ task'[p] = [task[p] EXCEPT !.at = at, !.no = n]
  BY DEF TypeOK, Then, Mined
<1> QED BY <1>1, <1>2, <1>3

(* So does every step of a run, but for that which reserves.                *)
LEMMA StepDeals ==
    ASSUME TypeOK, TaskInv, NEW p \in Procs, Proceeds(p), ~ Reserve(p)
    PROVE  /\ task'[p].at # "reserve"
           /\ \A b, q : Deals(p, b, q)' => Deals(p, b, q)
<1>1. CASE NextReservation(p)
  <2>1. task[p].op = "cron"
    BY <1>1 DEF NextReservation, TaskInv, TaskFits
  <2>2. PICK d \in task[p].todo :
          /\ task'[p].op = "cron" /\ task'[p].at = "prepare" /\ task'[p].base = d.base
          /\ task'[p].question = d.question /\ task'[p].todo \subseteq task[p].todo
    BY <1>1, <2>1 DEF NextReservation, TypeOK, Task
  <2> QED BY <2>1, <2>2 DEF Deals
<1>2. CASE ReserveOutcomes(p) \/ Cleanup(p) \/ Deletes(p) \/ SaveReservation(p) \/ MakerRefused(p)
  BY <1>2, EndedDeals DEF ReserveOutcomes, Cleanup, Deletes, SaveReservation, MakerRefused
<1>3. CASE Prepare(p) \/ Funds(p) \/ DropOutcomes(p) \/ AddOutcomes(p) \/ SaveMarket(p) \/ SaveOutcomes(p)
  BY <1>3, EndedDeals, FieldDeals
     DEF Prepare, Funds, DropOutcomes, AddOutcomes, SaveMarket, SaveOutcomes, Bringing, Deploying
<1>4. CASE Deposit(p) \/ Approve(p) \/ CreateMaker(p)
  BY <1>4, FieldDeals DEF Deposit, Approve, CreateMaker, Bringing, Deploying
<1> QED BY <1>1, <1>2, <1>3, <1>4 DEF Proceeds

(* A row comes to life, or changes its question, only by the run that deals  *)
(* with it.                                                                *)
LEMMA RowsStep ==
    ASSUME TypeOK, NEW p \in Procs, Proceeds(p), ~ Reserve(p)
    PROVE  \A b \in Base, q \in Questions : AsksRow(b, q)' => AsksRow(b, q) \/ Deals(p, b, q)
<1>1. CASE base' = base
  BY <1>1 DEF AsksRow
<1>2. CASE InsertOutcomes(p)
  BY <1>2 DEF InsertOutcomes, AsksRow, TypeOK, Reservation
<1>3. CASE Cleanup(p)
  <2>1. \A b \in Base : base'[b].row = "deleted" \/ base'[b] = base[b]
    BY <1>3 DEF Cleanup, TypeOK, Reservation
  <2> QED BY <2>1 DEF AsksRow
<1>4. CASE Deletes(p)
  BY <1>4 DEF Deletes, AsksRow, TypeOK, Reservation
<1>5. CASE DropOutcomes(p)
  BY <1>5 DEF DropOutcomes, AsksRow, TypeOK, Reservation
<1>6. CASE SaveReservation(p)
  <2>1. task[p].base \in Base /\ task[p].at \in Bringing
    BY <1>6 DEF SaveReservation, TypeOK, Task, Bringing
  <2>2. \A c \in Base : c # task[p].base => base'[c] = base[c]
    BY <1>6, <2>1 DEF SaveReservation, TypeOK
  <2>3. base'[task[p].base].question = task[p].question
    BY <1>6, <2>1 DEF SaveReservation, TypeOK, Reservation
  <2> QED BY <2>1, <2>2, <2>3 DEF AsksRow, Deals
<1> QED
  BY <1>1, <1>2, <1>3, <1>4, <1>5, <1>6
     DEF Proceeds, ReserveOutcomes, NextReservation, Prepare, Funds, Deposit, Approve, CreateMaker,
         MakerRefused, SaveMarket, SaveOutcomes, AddOutcomes, dbVars

(* And so does a market.                                                    *)
LEMMA MarketsStep ==
    ASSUME TypeOK, NEW p \in Procs, Proceeds(p), ~ Reserve(p)
    PROVE  \A b, q : AsksMarket(b, q)' => AsksMarket(b, q) \/ Deals(p, b, q)
<1>1. CASE markets' = markets
  BY <1>1 DEF AsksMarket
<1>2. CASE SaveMarket(p)
  <2>1. task[p].at \in Bringing /\ markets' = markets \union {NewMarket(task[p])}
    BY <1>2 DEF SaveMarket, Bringing, Deploying
  <2> QED BY <2>1 DEF AsksMarket, Deals, NewMarket
<1>3. CASE SaveOutcomes(p)
  <2>1. \A m \in markets' : \E n \in markets : n.base = m.base /\ n.question = m.question
    BY <1>3 DEF SaveOutcomes, TypeOK, Market
  <2> QED BY <2>1 DEF AsksMarket
<1> QED
  BY <1>1, <1>2, <1>3
     DEF Proceeds, ReserveOutcomes, Cleanup, NextReservation, Prepare, Funds, Deposit, Approve,
         CreateMaker, MakerRefused, Deletes, DropOutcomes, AddOutcomes, SaveReservation, dbVars

(* The reservation is saved under a question that nobody asks, by the only   *)
(* run.                                                                     *)
LEMMA UniqueReserve ==
    ASSUME TypeOK, TaskInv, UniqueInv, NEW p \in Procs, Reserve(p), ~overlapped', Alone'
    PROVE  UniqueInv'
<1>1. PICK b \in Base :
        /\ base[b].row = "unused"
        /\ base' = [base EXCEPT ![b] = [Unused EXCEPT !.row = "live",
                                         !.question = task[p].question, !.start = task[p].start]]
        /\ task' = [task EXCEPT ![p].base = b, ![p].outcomes = TRUE,
                      ![p].at = IF task[p].start = 0 THEN "prepare" ELSE "reserveOutcomes"]
  BY DEF Reserve
<1> DEFINE q == task[p].question
<1>2. /\ ~overlapped /\ task[p].at = "reserve" /\ task[p].op = "create" /\ q \in Questions
      /\ markets' = markets
  BY DEF Reserve, TaskInv, TaskFits, TypeOK, Task
<1>3. /\ \A c \in Base : c # b => base'[c] = base[c]
      /\ base'[b].question = q
  BY <1>1 DEF TypeOK, Unused
<1>4. /\ task'[p].op = "create" /\ task'[p].at \in {"prepare", "reserveOutcomes"}
      /\ task'[p].base = b /\ task'[p].question = q
  BY <1>1, <1>2 DEF TypeOK, Task
<1>5. \A r \in Procs : r # p => /\ task'[r] = task[r]
                                /\ task'[r].op = "none" /\ task'[r].at = "idle"
  <2>1. Proceeds(p)
    BY DEF Proceeds
  <2> QED BY <1>2, <2>1, OneTask DEF UniqueInv, Alone, TaskInv, TaskFits
<1>6. \A c \in Base : ~ Asks(c, q)
  BY <1>2 DEF UniqueInv, Found
<1> HIDE DEF q
<1>7. \A c \in Base, x \in Questions : Asks(c, x)' => Asks(c, x) \/ (c = b /\ x = q)
  <2> SUFFICES ASSUME NEW c \in Base, NEW x \in Questions, Asks(c, x)', ~ (c = b /\ x = q)
               PROVE  Asks(c, x)
    OBVIOUS
  <2>1. AsksRow(c, x)' => AsksRow(c, x)
    BY <1>3 DEF AsksRow
  <2>2. AsksMarket(c, x)' => AsksMarket(c, x)
    BY <1>2 DEF AsksMarket
  <2>3. \A r \in Procs : Deals(r, c, x)' => Deals(r, c, x)
    BY <1>4, <1>5 DEF Deals
  <2> QED BY <2>1, <2>2, <2>3 DEF Asks
<1>8. \A r \in Procs : task'[r].at # "reserve"
  BY <1>4, <1>5
<1>9. ~overlapped' => ~overlapped /\ Alone'
  BY <1>2
<1> QED BY <1>2, <1>6, <1>7, <1>8, <1>9, UniqueAdds

(* There are no reservations at the start.                                  *)
LEMMA UniqueInit == Init => UniqueInv
<1> SUFFICES ASSUME Init PROVE UniqueInv
  OBVIOUS
<1>1. \A p \in Procs : task[p] = Idle
  BY DEF Init
<1>2. \A b \in Base : \A q : ~ Asks(b, q)
  BY <1>1 DEF Init, Asks, AsksRow, AsksMarket, Deals, Bringing, Deploying, Idle, Unused
<1> QED BY <1>1, <1>2 DEF UniqueInv, Alone, AsksDiffer, Found, Idle

(* Every step is one of these, or overlaps.                                 *)
LEMMA UniqueNext == ASSUME TypeOK, TaskInv, UniqueInv, [Next]_vars PROVE UniqueInv'
<1>0. ~overlapped' => ~overlapped /\ Alone'
  BY AloneNext DEF UniqueInv
<1> SUFFICES ASSUME ~overlapped' PROVE UniqueInv'
  BY DEF UniqueInv
<1>1. CASE UNCHANGED <<base, markets, task>>
  <2>1. NoNewAsks /\ NoNewFind
    BY <1>1 DEF NoNewAsks, NoNewFind, Asks, AsksRow, AsksMarket, Deals
  <2> QED BY <1>0, <2>1, UniqueKept
<1>2. ASSUME NEW p \in Cron, CronStarts(p) PROVE UniqueInv'
  <2>1. base' = base /\ markets' = markets /\ p \in Procs
    BY <1>2 DEF CronStarts, dbVars, Procs
  <2>2. /\ task'[p].at = "next"
        /\ \A d \in task'[p].todo : AsksRow(d.base, d.question)
        /\ \A q \in Procs : q # p => task'[q] = task[q]
    BY <1>2, <2>1 DEF CronStarts, Start, TypeOK, Idle, Due, AsksRow
  <2>3. NoNewAsks
    <3>1. \A b \in Base, q \in Questions : Deals(p, b, q)' => AsksRow(b, q)
      BY <2>2 DEF Deals, Bringing, Deploying
    <3> QED BY <2>1, <2>2, <3>1 DEF NoNewAsks, Asks, AsksRow, AsksMarket, Deals
  <2> QED BY <1>0, <2>2, <2>3, UniqueKept DEF NoNewFind
<1>3. ASSUME NEW p \in Requests, NEW q \in Questions, NEW date \in 0 .. MaxTime, Creates(p, q, date)
      PROVE  UniqueInv'
  <2>1. /\ base' = base /\ markets' = markets /\ p \in Procs
        /\ \A b \in Base : ~ AsksRow(b, q) /\ ~ AsksMarket(b, q)
    BY <1>3 DEF Creates, dbVars, Procs, Repetitive, AsksRow, AsksMarket
  <2>2. /\ task'[p].at = "reserve" /\ task'[p].op = "create" /\ task'[p].question = q
        /\ \A r \in Procs : r # p => task'[r] = task[r]
    BY <1>3, <2>1 DEF Creates, Start, TypeOK, Idle
  <2>3. \A r \in Procs : r # p => task'[r].at = "idle" /\ task'[r].op = "none"
    BY <1>3, <1>0, <2>2 DEF Creates, Start, TaskInv, TaskFits
  <2>4. \A r \in Procs : \A b, x : ~ Deals(r, b, x)'
    BY <2>2, <2>3 DEF Deals, Bringing, Deploying
  <2>5. AsksDiffer'
    <3>1. NoNewAsks
      BY <2>1, <2>4 DEF NoNewAsks, Asks, AsksRow, AsksMarket
    <3> QED BY <1>0, <3>1 DEF UniqueInv, AsksDiffer, NoNewAsks
  <2>6. Found'
    <3>1. \A b \in Base : ~ Asks(b, q)'
      BY <2>1, <2>4 DEF Asks, AsksRow, AsksMarket
    <3> QED BY <2>2, <2>3, <3>1 DEF Found
  <2> QED BY <1>0, <2>5, <2>6 DEF UniqueInv
<1>4. ASSUME NEW p \in Requests, NEW b \in Base, NEW q \in Questions, NEW date \in 0 .. MaxTime,
             NEW o \in BOOLEAN, Updates(p, b, q, date, o)
      PROVE  UniqueInv'
  <2>1. /\ base' = base /\ markets' = markets /\ p \in Procs
        /\ AsksRow(b, q) \/ \A c \in Base : ~ AsksRow(c, q) /\ ~ AsksMarket(c, q)
    BY <1>4 DEF Updates, dbVars, Procs, Repetitive, AsksRow, AsksMarket
  <2>2. /\ task'[p].at \in {"drop", "update"} /\ task'[p].op = "update"
        /\ task'[p].question = q /\ task'[p].base = b
        /\ \A r \in Procs : r # p => task'[r] = task[r]
    BY <1>4, <2>1 DEF Updates, Start, TypeOK, Idle
  <2>3. \A r \in Procs : task[r].at = "idle" /\ task[r].op = "none"
    BY <1>4, <1>0 DEF Updates, Start, TaskInv, TaskFits
  <2>4. \A r \in Procs : \A c, x : ~ Deals(r, c, x)
    BY <2>3 DEF Deals, Bringing, Deploying
  <2>5. \A c \in Base : Asks(c, q) => c = b
    BY <1>0, <2>1, <2>4 DEF UniqueInv, AsksDiffer, Asks
  <2>6. \A c \in Base, x \in Questions : Asks(c, x)' => Asks(c, x) \/ (c = b /\ x = q)
    <3>1. \A r \in Procs : \A c, x : Deals(r, c, x)' => c = b /\ x = q
      BY <2>2, <2>3 DEF Deals, Bringing, Deploying
    <3> QED BY <2>1, <3>1 DEF Asks, AsksRow, AsksMarket
  <2>7. \A r \in Procs : task'[r].at # "reserve"
    BY <2>2, <2>3
  <2> QED BY <1>0, <2>5, <2>6, <2>7, UniqueAdds
<1>5. ASSUME NEW b \in Base, Removes(b) PROVE UniqueInv'
  <2>1. task' = task /\ markets' = markets
    BY <1>5 DEF Removes
  <2>2. \A c \in Base, q \in Questions : AsksRow(c, q)' => AsksRow(c, q)
    BY <1>5 DEF Removes, AsksRow, TypeOK, Reservation
  <2>3. NoNewAsks /\ NoNewFind
    BY <2>1, <2>2 DEF NoNewAsks, NoNewFind, Asks, AsksMarket, Deals
  <2> QED BY <1>0, <2>3, UniqueKept
<1>6. ASSUME NEW p \in Procs, Proceeds(p), ~ Reserve(p) PROVE UniqueInv'
  <2>1. \A q \in Procs : q # p => task'[q] = task[q]
    BY <1>6, OneTask
  <2>2. NoNewFind
    BY <1>6, <2>1, StepDeals DEF NoNewFind
  <2>3. \A r \in Procs : \A b, q : Deals(r, b, q)' => Deals(r, b, q)
    <3>1. \A b, q : Deals(p, b, q)' => Deals(p, b, q)
      BY <1>6, StepDeals
    <3>2. ASSUME NEW r \in Procs, r # p PROVE \A b, q : Deals(r, b, q)' => Deals(r, b, q)
      BY <2>1, <3>2 DEF Deals
    <3> QED BY <3>1, <3>2
  <2>4. NoNewAsks
    BY <1>6, <2>3, RowsStep, MarketsStep DEF NoNewAsks, Asks
  <2> QED BY <1>0, <2>2, <2>4, UniqueKept
<1>7. ASSUME NEW p \in Procs, Fails(p) PROVE UniqueInv'
  <2>1. \A q \in Procs : q # p => task'[q] = task[q]
    BY <1>7, OneTask
  <2>2. /\ base' = base /\ markets' = markets /\ task'[p].at # "reserve"
        /\ \A r \in Procs : \A b, q : Deals(r, b, q)' => Deals(r, b, q)
    BY <1>7, <2>1, EndedDeals DEF Fails, dbVars, Deals
  <2>3. NoNewAsks /\ NoNewFind
    BY <2>1, <2>2 DEF NoNewAsks, NoNewFind, Asks, AsksRow, AsksMarket
  <2> QED BY <1>0, <2>3, UniqueKept
<1>8. CASE Crash
  <2>1. base' = base /\ markets' = markets /\ \A q \in Procs : task'[q].at = "idle" /\ task'[q].op = "none"
    BY <1>8 DEF Crash, dbVars, Idle
  <2>2. NoNewAsks /\ NoNewFind
    BY <2>1 DEF NoNewAsks, NoNewFind, Asks, AsksRow, AsksMarket, Deals, Bringing, Deploying
  <2> QED BY <1>0, <2>2, UniqueKept
<1> QED BY <1>0, <1>1, <1>2, <1>3, <1>4, <1>5, <1>6, <1>7, <1>8, UniqueReserve
        DEF Next, Tick, Request, vars, dbVars

-----------------------------------------------------------------------------
(* Reservations that are started once                                      *)

(* A run goes on with the same reservation, or leaves off.                  *)
GoesOn(p) ==
    /\ task'[p].op = task[p].op /\ task'[p].base = task[p].base /\ task'[p].todo = task[p].todo
    /\ Creating(p)' => Creating(p)
    /\ Saving(p)' <=> Saving(p)

LeavesOff(p) ==
    /\ ~ Creating(p)' /\ ~ Saving(p)' /\ task'[p].op # "update"
    /\ task'[p].op = "cron" => task[p].op = "cron" /\ task'[p].todo \subseteq task[p].todo

(* A run that has ended works on no reservation.                            *)
LEMMA EndedLeavesOff ==
    ASSUME TypeOK, NEW p \in Procs, Ends(p) \/ Throws(p)
    PROVE  LeavesOff(p)
<1>1. \A t : /\ Ended(t).at \in {"idle", "next"} /\ Thrown(t).at \in {"idle", "next", "cleanup"}
             /\ Ended(t).op # "update" /\ Thrown(t).op # "update"
             /\ Ended(t).op = "cron" => t.op = "cron" /\ Ended(t).todo = t.todo
             /\ Thrown(t).op = "cron" => t.op = "cron" /\ Thrown(t).todo = t.todo
  BY DEF Ended, Thrown, Idle
<1>2. task'[p] = Ended(task[p]) \/ task'[p] = Thrown(task[p])
  BY DEF TypeOK, Ends, Throws
<1> QED BY <1>1, <1>2 DEF LeavesOff, Creating, Saving

(* A run that goes on works on the same reservation.                        *)
LEMMA FieldGoesOn ==
    ASSUME TypeOK, NEW p \in Procs, NEW at, task'[p] = [task[p] EXCEPT !.at = at],
           at \in {"prepare", "funds", "deposit", "approve", "create"} => Creating(p),
           at \in {"market", "outcomes", "delete"} <=> Saving(p)
    PROVE  GoesOn(p)
BY AtFields DEF TypeOK, GoesOn, Creating, Saving

(* A step of one run that goes on, or leaves off what is deleted, keeps it. *)
LEMMA StartedKept ==
    ASSUME TypeOK, StartedInv, ~overlapped, faults = 0,
           NEW p \in Procs, \A q \in Procs : q # p => task'[q] = task[q],
           contracts' = contracts,
           \A b \in Base : contracts[b] # 0 /\ base[b].row = "deleted" => base'[b].row = "deleted",
           \/ GoesOn(p)
           \/ LeavesOff(p) /\ (Saving(p) => base'[task[p].base].row = "deleted")
    PROVE  StartedInv'
<1> USE DEF StartedInv
<1>1. \A q \in Procs : q # p => (Creating(q)' <=> Creating(q)) /\ (Saving(q)' <=> Saving(q))
  BY DEF Creating, Saving
<1>2. OneContract'
  <2> SUFFICES ASSUME NEW b \in Base, contracts[b] # 0
               PROVE  /\ contracts[b] = 1
                      /\ base'[b].row = "deleted" \/ \E q \in Procs : Saving(q)' /\ task'[q].base = b
    BY DEF OneContract
  <2>1. contracts[b] = 1 /\ (base[b].row = "deleted" \/ \E q \in Procs : Saving(q) /\ task[q].base = b)
    BY DEF OneContract
  <2>2. ASSUME NEW q \in Procs, Saving(q), task[q].base = b
        PROVE  base'[b].row = "deleted" \/ (Saving(q)' /\ task'[q].base = b)
    BY <1>1, <2>2 DEF GoesOn
  <2> QED BY <2>1, <2>2
<1>3. NoContractYet'
  BY <1>1 DEF NoContractYet, GoesOn, LeavesOff
<1>4. NoContractToDo'
  <2> SUFFICES ASSUME NEW q \in Procs, task'[q].op = "cron", NEW d \in task'[q].todo
               PROVE  /\ contracts[d.base] = 0
                      /\ Creating(q)' \/ Saving(q)' => d.base # task'[q].base
                      /\ \A e \in task'[q].todo : d.base = e.base => d = e
    BY DEF NoContractToDo
  <2>1. CASE q # p
    BY <1>1, <2>1 DEF NoContractToDo
  <2>2. CASE q = p
    BY <2>2 DEF NoContractToDo, GoesOn, LeavesOff
  <2> QED BY <2>1, <2>2
<1> QED BY <1>2, <1>3, <1>4

(* There are no contracts and no runs at the start.                         *)
LEMMA StartedInit == Init => StartedInv
<1> SUFFICES ASSUME Init PROVE StartedInv
  OBVIOUS
<1>1. \A p \in Procs : task[p].at = "idle" /\ task[p].op = "none"
  BY DEF Init, Idle
<1>2. \A b \in Base : contracts[b] = 0
  BY DEF Init
<1> QED BY <1>1, <1>2 DEF StartedInv, OneContract, NoContractYet, NoContractToDo, Creating

(* A run starts alone: every contract there is has its reservation deleted. *)
LEMMA StartedStarts ==
    ASSUME TypeOK, TaskInv, StartedInv, faults = 0, NEW p \in Procs, NEW t \in Task, Start(p, t),
           ~overlapped', UNCHANGED <<base, contracts, faults>>,
           t.at \in {"reserve", "next", "drop", "update"},
           t.op = "update" => base[t.base].row = "live",
           t.op = "cron" => \A d \in t.todo : /\ base[d.base].row = "live"
                                              /\ \A e \in t.todo : d.base = e.base => d = e
    PROVE  StartedInv'
<1>1. ~overlapped /\ \A q \in Procs : task[q].op = "none"
  BY DEF Start
<1>2. \A q \in Procs : task[q].at = "idle"
  BY <1>1 DEF TaskInv, TaskFits
<1>3. \A b \in Base : contracts[b] = 0 \/ (contracts[b] = 1 /\ base[b].row = "deleted")
  BY <1>1, <1>2 DEF StartedInv, OneContract, Saving
<1>4. task'[p] = t /\ \A q \in Procs : q # p => task'[q] = task[q]
  BY DEF Start, TypeOK
<1>5. \A q \in Procs : ~ Creating(q)'
  BY <1>2, <1>4 DEF Creating
<1>6. OneContract'
  BY <1>3 DEF OneContract
<1>7. NoContractYet'
  <2>1. t.base \in Base
    BY DEF Task
  <2> QED BY <1>1, <1>3, <1>4, <1>5, <2>1 DEF NoContractYet
<1>8. NoContractToDo'
  <2>1. \A d \in t.todo : d.base \in Base
    BY DEF Task, Loaded
  <2>2. ~ Saving(p)'
    BY <1>4 DEF Saving
  <2> QED BY <1>1, <1>3, <1>4, <1>5, <2>1, <2>2 DEF NoContractToDo
<1> QED BY <1>6, <1>7, <1>8 DEF StartedInv

(* The run that creates the contract will save it, and nobody else has its  *)
(* reservation to do.                                                       *)
LEMMA StartedCreates ==
    ASSUME TypeOK, TaskInv, UniqueInv, StartedInv, ~overlapped, faults' = 0,
           NEW p \in Procs, CreateMaker(p)
    PROVE  StartedInv'
<1> DEFINE b == task[p].base
<1>1. /\ faults = 0 /\ task[p].at = "create" /\ task[p].op \in {"create", "cron"}
      /\ task'[p] = [task[p] EXCEPT !.at = "market", !.no = contracts'[b]]
  BY CreateMakerStep, FaultCounts DEF TaskInv, TaskFits, Deploying
<1>2. /\ task'[p].at = "market" /\ task'[p].op = task[p].op /\ task'[p].base = b
      /\ task'[p].todo = task[p].todo
  BY <1>1 DEF TypeOK, Task
<1>3. Creating(p) /\ ~ Creating(p)' /\ Saving(p)'
  BY <1>1, <1>2 DEF Creating, Saving
<1>4. \A q \in Procs : q # p => task'[q] = task[q] /\ task[q].op = "none" /\ task[q].at = "idle"
  <2>1. task[p].op # "none"
    BY <1>1
  <2> QED BY <2>1, CreateMakerStep DEF UniqueInv, Alone, TaskInv, TaskFits
<1>5. /\ b \in Base /\ contracts[b] = 0 /\ base' = base
      /\ contracts'[b] = 1
      /\ \A c \in Base : c # b => contracts'[c] = contracts[c]
  <2>1. b \in Base /\ contracts \in [Base -> Nat]
    BY OrphanTypes
  <2>2. contracts[b] = 0
    BY <1>1, <1>3 DEF StartedInv, NoContractYet
  <2>3. contracts' = [contracts EXCEPT ![b] = @ + 1]
    BY CreateMakerStep
  <2>4. base' = base
    BY DEF CreateMaker, dbVars
  <2> HIDE DEF b
  <2> QED BY <2>1, <2>2, <2>3, <2>4
<1>6. OneContract'
  <2>1. \A q \in Procs : Saving(q) => FALSE
    BY <1>1, <1>4 DEF Saving
  <2> QED BY <1>1, <1>2, <1>3, <1>5, <2>1 DEF StartedInv, OneContract
<1>7. NoContractYet'
  <2>1. \A q \in Procs : ~ Creating(q)' /\ task'[q].op # "update"
    BY <1>1, <1>2, <1>4 DEF Creating
  <2> QED BY <2>1 DEF NoContractYet
<1>8. NoContractToDo'
  <2>1. \A d \in task[p].todo : d.base \in Base
    BY DEF TypeOK, Task, Loaded
  <2>2. task[p].op = "cron" => \A d \in task[p].todo :
            /\ contracts[d.base] = 0 /\ d.base # b
            /\ \A e \in task[p].todo : d.base = e.base => d = e
    BY <1>1, <1>3 DEF StartedInv, NoContractToDo
  <2> HIDE DEF b
  <2>3. \A q \in Procs : task'[q].op = "cron" => q = p
    BY <1>4
  <2> QED BY <1>2, <1>5, <2>1, <2>2, <2>3 DEF NoContractToDo
<1> QED BY <1>6, <1>7, <1>8 DEF StartedInv

(* The next reservation of the cron job is one it has not taken yet.        *)
LEMMA StartedTakes ==
    ASSUME TypeOK, TaskInv, StartedInv, ~overlapped, faults' = 0, NEW p \in Procs, NextReservation(p)
    PROVE  StartedInv'
<1>1. PICK d \in task[p].todo :
        task' = [task EXCEPT ![p].todo = @ \ {d}, ![p].at = "prepare", ![p].base = d.base,
                             ![p].outcomes = d.outcomes, ![p].question = d.question]
  BY DEF NextReservation
<1>2. /\ faults = 0 /\ task[p].at = "next" /\ task[p].op = "cron"
      /\ base' = base /\ contracts' = contracts
  BY DEF NextReservation, TaskInv, TaskFits, dbVars, chainVars
<1>3. /\ task'[p].op = "cron" /\ task'[p].at = "prepare" /\ task'[p].base = d.base
      /\ task'[p].todo = task[p].todo \ {d}
      /\ \A q \in Procs : q # p => task'[q] = task[q]
  BY <1>1, <1>2 DEF TypeOK, Task
<1>4. \A q \in Procs : q # p => (Creating(q)' <=> Creating(q)) /\ (Saving(q)' <=> Saving(q))
  BY <1>3 DEF Creating, Saving
<1>5. ~ Saving(p) /\ ~ Saving(p)'
  BY <1>2, <1>3 DEF Saving
<1> USE DEF StartedInv
<1>6. \A e \in task[p].todo : /\ contracts[e.base] = 0
                              /\ \A f \in task[p].todo : e.base = f.base => e = f
  BY <1>2 DEF NoContractToDo
<1>7. OneContract'
  BY <1>2, <1>3, <1>4, <1>5 DEF OneContract
<1>8. NoContractYet'
  BY <1>2, <1>3, <1>4, <1>6 DEF NoContractYet
<1>9. NoContractToDo'
  <2>1. \A q \in Procs : q # p /\ task'[q].op = "cron" =>
            \A e \in task'[q].todo :
                /\ contracts[e.base] = 0
                /\ Creating(q)' \/ Saving(q)' => e.base # task'[q].base
                /\ \A f \in task'[q].todo : e.base = f.base => e = f
    BY <1>2, <1>3, <1>4 DEF NoContractToDo
  <2>2. \A e \in task'[p].todo : e \in task[p].todo /\ e.base # d.base
    BY <1>3, <1>6
  <2> QED BY <1>2, <1>3, <1>6, <2>1, <2>2 DEF NoContractToDo
<1> QED BY <1>7, <1>8, <1>9

(* A new reservation has a number of its own, which nobody works on.        *)
LEMMA StartedReserves ==
    ASSUME TypeOK, TaskInv, UniqueInv, StartedInv, ~overlapped, faults' = 0, NEW p \in Procs, Reserve(p)
    PROVE  StartedInv'
<1>1. PICK b \in Base :
        /\ base[b].row = "unused"
        /\ base' = [base EXCEPT ![b] = [Unused EXCEPT !.row = "live",
                                         !.question = task[p].question, !.start = task[p].start]]
        /\ task' = [task EXCEPT ![p].base = b, ![p].outcomes = TRUE,
                      ![p].at = IF task[p].start = 0 THEN "prepare" ELSE "reserveOutcomes"]
  BY DEF Reserve
<1>2. faults = 0 /\ task[p].at = "reserve" /\ task[p].op = "create" /\ contracts' = contracts
  BY DEF Reserve, TaskInv, TaskFits, chainVars
<1>3. /\ task'[p].op = "create" /\ task'[p].base = b /\ task'[p].at \in {"prepare", "reserveOutcomes"}
      /\ \A q \in Procs : q # p => task'[q] = task[q] /\ task[q].op = "none" /\ task[q].at = "idle"
      /\ \A c \in Base : c # b => base'[c] = base[c]
  BY <1>1, <1>2 DEF TypeOK, Task, UniqueInv, Alone, TaskInv, TaskFits
<1>4. \A q \in Procs : ~ Saving(q)
  BY <1>2, <1>3 DEF Saving
<1> USE DEF StartedInv
<1>5. contracts[b] = 0
  BY <1>1, <1>2, <1>4 DEF OneContract
<1>6. OneContract'
  BY <1>2, <1>3, <1>4, <1>5 DEF OneContract
<1>7. NoContractYet'
  BY <1>2, <1>3, <1>5 DEF NoContractYet, Creating
<1>8. NoContractToDo'
  BY <1>3 DEF NoContractToDo
<1> QED BY <1>6, <1>7, <1>8

(* Every step of a run is one of these.                                     *)
LEMMA StartedProceeds ==
    ASSUME TypeOK, TaskInv, UniqueInv, StartedInv, ~overlapped, faults' = 0, NEW p \in Procs, Proceeds(p)
    PROVE  StartedInv'
<1>0. \A q \in Procs : q # p => task'[q] = task[q]
  BY OneTask
<1>1. ASSUME Ends(p) \/ Throws(p), faults = 0, contracts' = contracts,
             \A b \in Base : contracts[b] # 0 /\ base[b].row = "deleted" => base'[b].row = "deleted",
             Saving(p) => base'[task[p].base].row = "deleted"
      PROVE  StartedInv'
  BY <1>0, <1>1, EndedLeavesOff, StartedKept
<1>2. ASSUME NEW at, Then(p, at) \/ Mined(p, [task[p] EXCEPT !.at = at]), contracts' = contracts,
             faults' = faults \/ Fault,
             \A b \in Base : contracts[b] # 0 /\ base[b].row = "deleted" => base'[b].row = "deleted",
             at \in {"prepare", "funds", "deposit", "approve", "create"} => Creating(p),
             at \in {"market", "outcomes", "delete"} <=> Saving(p)
      PROVE  StartedInv'
  <2>1. faults = 0 /\ ~ Fault
    BY <1>2, FaultCounts
  <2>2. task'[p] = [task[p] EXCEPT !.at = at]
    BY <1>2, <2>1 DEF Then, Mined, TypeOK
  <2> QED BY <1>0, <1>2, <2>1, <2>2, FieldGoesOn, StartedKept
<1>3. CASE ReserveOutcomes(p) \/ AddOutcomes(p)
  <2>1. InsertOutcomes(p) /\ faults' = faults /\ contracts' = contracts
    BY <1>3 DEF ReserveOutcomes, AddOutcomes, chainVars
  <2>2. \A b \in Base : base'[b].row = base[b].row
    BY <2>1 DEF InsertOutcomes, TypeOK, Reservation
  <2>3. ~ Saving(p)
    BY <1>3 DEF ReserveOutcomes, AddOutcomes, Saving
  <2>4. Ends(p) \/ Then(p, "update")
    BY <1>3 DEF ReserveOutcomes, AddOutcomes
  <2>5. CASE Ends(p)
    <3>1. faults = 0
      BY <2>1
    <3> QED BY <1>1, <2>1, <2>2, <2>3, <2>5, <3>1
  <2>6. ASSUME NEW at \in {"update"}, Then(p, at) PROVE StartedInv'
    BY <1>2, <2>1, <2>2, <2>3, <2>6
  <2> QED BY <2>4, <2>5, <2>6
<1>4. CASE Cleanup(p)
  <2>1. \A b \in Base : base[b].row = "deleted" => base'[b].row = "deleted"
    BY <1>4 DEF Cleanup, Cleaned
  <2> QED BY <1>1, <1>4, <2>1 DEF Cleanup, Saving, chainVars
<1>5. CASE Deletes(p)
  <2>1. base'[task[p].base].row = "deleted" /\ \A b \in Base : b # task[p].base => base'[b] = base[b]
    BY <1>5 DEF Deletes, TypeOK, Task, Reservation
  <2> QED BY <1>1, <1>5, <2>1 DEF Deletes, chainVars
<1>6. CASE SaveReservation(p)
  <2>1. task[p].op = "update" /\ task[p].base \in Base /\ faults = 0
    BY <1>6 DEF SaveReservation, TaskInv, TaskFits, TypeOK, Task
  <2>2. contracts[task[p].base] = 0
    BY <2>1 DEF StartedInv, NoContractYet
  <2>3. \A b \in Base : b # task[p].base => base'[b] = base[b]
    BY <1>6 DEF SaveReservation, TypeOK
  <2> QED BY <1>1, <1>6, <2>1, <2>2, <2>3 DEF SaveReservation, Saving, chainVars
<1>7. CASE DropOutcomes(p)
  <2>1. \A b \in Base : base'[b].row = base[b].row
    BY <1>7 DEF DropOutcomes, TypeOK, Reservation
  <2> QED BY <1>2, <1>7, <2>1 DEF DropOutcomes, Saving, chainVars
<1>8. CASE Prepare(p) \/ Funds(p) \/ MakerRefused(p)
  <2>1. UNCHANGED <<base, contracts, faults>> /\ ~ Saving(p) /\ Creating(p)
    BY <1>8 DEF Prepare, Funds, MakerRefused, Saving, Creating, dbVars, chainVars
  <2>2. Throws(p) \/ \E at \in {"funds", "deposit", "approve"} : Then(p, at)
    BY <1>8 DEF Prepare, Funds, MakerRefused
  <2> QED BY <1>1, <1>2, <2>1, <2>2
<1>9. CASE Deposit(p) \/ Approve(p)
  <2>1. UNCHANGED <<base, contracts>> /\ ~ Saving(p) /\ Creating(p)
    BY <1>9 DEF Deposit, Approve, Saving, Creating, dbVars
  <2>2. /\ \E at \in {"approve", "create"} : Mined(p, [task[p] EXCEPT !.at = at])
        /\ faults' = faults \/ Fault
    BY <1>9 DEF Deposit, Approve, Mined
  <2> QED BY <1>2, <2>1, <2>2
<1>10. CASE SaveMarket(p) \/ SaveOutcomes(p)
  <2>1. UNCHANGED <<base, contracts, faults>> /\ Saving(p)
    BY <1>10 DEF SaveMarket, SaveOutcomes, Saving, chainVars
  <2>2. \E at \in {"outcomes", "delete"} : Then(p, at)
    BY <1>10 DEF SaveMarket, SaveOutcomes
  <2> QED BY <1>2, <2>1, <2>2
<1> QED BY <1>3, <1>4, <1>5, <1>6, <1>7, <1>8, <1>9, <1>10, StartedCreates, StartedTakes, StartedReserves
        DEF Proceeds

(* And every step of the system, as long as runs do not overlap and nothing *)
(* fails.                                                                   *)
LEMMA StartedNext == ASSUME TypeOK, TaskInv, UniqueInv, StartedInv, [Next]_vars PROVE StartedInv'
<1> SUFFICES ASSUME ~overlapped', faults' = 0 PROVE StartedInv'
  BY DEF StartedInv
<1>0. ~overlapped
  BY AloneNext DEF UniqueInv
<1>1. CASE UNCHANGED <<base, contracts, task, overlapped, faults>>
  BY <1>1 DEF StartedInv, OneContract, NoContractYet, NoContractToDo, Creating, Saving
<1>2. ASSUME NEW p \in Cron, CronStarts(p) PROVE StartedInv'
  <2> DEFINE due == {[base |-> b, question |-> base[b].question, outcomes |-> base[b].outcomes] :
                         b \in {c \in Base : Due(c)}}
             t == [Idle EXCEPT !.op = "cron", !.at = "next", !.todo = due]
  <2>1. p \in Procs /\ Start(p, t) /\ UNCHANGED <<base, contracts, faults>>
    BY <1>2 DEF CronStarts, Procs, dbVars, chainVars
  <2>2. due \in SUBSET Loaded
    BY DEF TypeOK, Reservation, Loaded
  <2>3. \A d \in due : /\ base[d.base].row = "live"
                       /\ \A e \in due : d.base = e.base => d = e
    BY DEF Due
  <2>4. t \in Task /\ t.at = "next" /\ t.op = "cron" /\ t.todo = due
    <3> HIDE DEF due
    <3> QED BY <2>2, IdleType DEF Task, Idle
  <2> HIDE DEF due, t
  <2> QED BY <2>1, <2>3, <2>4, StartedStarts
<1>3. ASSUME NEW p \in Requests, NEW q \in Questions, NEW date \in 0 .. MaxTime, Creates(p, q, date)
      PROVE  StartedInv'
  <2> DEFINE t == [Idle EXCEPT !.op = "create", !.at = "reserve", !.question = q, !.start = date]
  <2>1. p \in Procs /\ Start(p, t) /\ UNCHANGED <<base, contracts, faults>>
    BY <1>3 DEF Creates, Procs, dbVars, chainVars
  <2>2. t \in Task /\ t.at = "reserve" /\ t.op = "create"
    BY IdleType DEF Task, Idle
  <2> HIDE DEF t
  <2> QED BY <2>1, <2>2, StartedStarts
<1>4. ASSUME NEW p \in Requests, NEW b \in Base, NEW q \in Questions, NEW date \in 0 .. MaxTime,
             NEW o \in BOOLEAN, Updates(p, b, q, date, o)
      PROVE  StartedInv'
  <2> DEFINE t == [Idle EXCEPT !.op = "update", !.at = IF o THEN "drop" ELSE "update",
                               !.base = b, !.question = q, !.start = date]
  <2>1. p \in Procs /\ Start(p, t) /\ UNCHANGED <<base, contracts, faults>> /\ base[b].row = "live"
    BY <1>4 DEF Updates, Procs, dbVars, chainVars
  <2>2. t \in Task /\ t.at \in {"drop", "update"} /\ t.op = "update" /\ t.base = b
    BY IdleType DEF Task, Idle
  <2> HIDE DEF t
  <2> QED BY <2>1, <2>2, StartedStarts
<1>5. ASSUME NEW b \in Base, Removes(b) PROVE StartedInv'
  <2>1. /\ UNCHANGED <<contracts, task, faults>> /\ base[b].row = "live"
        /\ \A c \in Base : c # b => base'[c] = base[c]
    BY <1>5 DEF Removes, TypeOK, chainVars
  <2> QED BY <1>0, <2>1 DEF StartedInv, OneContract, NoContractYet, NoContractToDo, Creating, Saving
<1>6. ASSUME NEW p \in Procs, Proceeds(p) PROVE StartedInv'
  BY <1>0, <1>6, StartedProceeds
<1>7. ~ Crash /\ \A p \in Procs : ~ Fails(p)
  BY FaultCounts DEF Crash, Fails
<1> QED BY <1>1, <1>2, <1>3, <1>4, <1>5, <1>6, <1>7
        DEF Next, Tick, Request, vars, dbVars, chainVars

-----------------------------------------------------------------------------
(* What the invariants say of the system                                   *)

(* No run does anything at the start.                                       *)
LEMMA TaskInit == Init => TaskInv
BY DEF Init, TaskInv, TaskFits, Idle, Deploying

DeploymentInv == TypeOK /\ TaskInv /\ LostInv /\ UniqueInv /\ StartedInv /\ OrphanInv

(* The inductive invariant of the deployment of markets: what each run of    *)
(* createNewMarket, deployMarket, the cron job and the update of a           *)
(* reservation knows at each of its awaits.                                *)
THEOREM DeploymentInvariant == Spec => []DeploymentInv
<1>1. Init => DeploymentInv
  BY TypeInit, TaskInit, LostInit, UniqueInit, StartedInit, OrphanInit DEF DeploymentInv
<1>2. DeploymentInv /\ [Next]_vars => DeploymentInv'
  BY TypeNext, TaskNext, LostNext, UniqueNext, StartedNext, OrphanNext DEF DeploymentInv
<1> QED BY <1>1, <1>2, PTL DEF Spec

(* Every variable of the deployment keeps its type.                        *)
THEOREM DeploymentTypes == Spec => []TypeOK
<1>1. DeploymentInv => TypeOK
  BY DEF DeploymentInv
<1> QED BY <1>1, DeploymentInvariant, PTL

(* A reservation with a date is deleted only by deployMarket, after the rows *)
(* of its market are saved, whatever else runs, fails or crashes.           *)
THEOREM ReservationsAreNotLost == Spec => NoReservationLost
<1>1. DeploymentInv /\ [Next]_vars =>
        [\A b \in Base : base[b].row = "live" /\ base[b].start # 0 /\ base'[b].row = "deleted"
                           => Complete(b)']_vars
  BY ReservationStep DEF DeploymentInv
<1> QED BY <1>1, DeploymentInvariant, PTL DEF Spec, NoReservationLost

(* As long as no two runs overlap, live reservations and markets with one     *)
(* question come of one reservation: a request that asks what is reserved or *)
(* deployed already is refused.                                            *)
THEOREM QuestionsAreUnique == Spec => []QuestionUniqueWithoutOverlap
<1>1. ASSUME DeploymentInv, ~overlapped, NEW x \in Asked, NEW y \in Asked, x.question = y.question
      PROVE  x.base = y.base
  <2>1. AsksDiffer
    BY <1>1 DEF DeploymentInv, UniqueInv
  <2>2. \A z \in Asked : z.base \in Base /\ z.question \in Questions /\ Asks(z.base, z.question)
    BY <1>1 DEF DeploymentInv, TypeOK, Reservation, Market, Asked, Asks, AsksRow, AsksMarket
  <2> QED BY <1>1, <2>1, <2>2 DEF AsksDiffer
<1>2. DeploymentInv => QuestionUniqueWithoutOverlap
  BY <1>1 DEF QuestionUniqueWithoutOverlap
<1> QED BY <1>2, DeploymentInvariant, PTL

(* A reservation gets one contract, if no two runs overlap and nothing       *)
(* fails.                                                                  *)
THEOREM ReservationsStartOnce == Spec => []StartedOnceWithoutOverlap
<1>1. DeploymentInv => StartedOnceWithoutOverlap
  BY DEF DeploymentInv, StartedInv, OneContract, StartedOnceWithoutOverlap
<1> QED BY <1>1, DeploymentInvariant, PTL

(* When all runs have ended, the complete rows of a reservation correspond   *)
(* to the numbers of its contracts, one to one.                            *)
LEMMA ContractsHaveRows == ASSUME TypeOK, TaskInv, OrphanInv PROVE NoOrphanContract
<1> SUFFICES ASSUME Quiet, faults = 0, NEW b \in Base
             PROVE  Cardinality({m \in markets : m.base = b /\ m.outcomes}) = contracts[b]
  BY DEF NoOrphanContract
<1> DEFINE rows == {m \in markets : m.base = b /\ m.outcomes}
           number == [m \in rows |-> m.no]
<1>1. \A p \in Procs : task[p].at = "idle"
  BY DEF Quiet, TaskInv, TaskFits
<1>2. \A m \in markets : m.outcomes
  BY <1>1 DEF OrphanInv, RowsCovered, SavesOutcomes
<1>3. \A n \in 1 .. contracts[b] : \E m \in markets : m.base = b /\ m.no = n
  BY <1>1 DEF OrphanInv, ContractsCovered, SavesMarket
<1>4. number \in Bijection(rows, 1 .. contracts[b])
  <2>1. \A m \in rows : number[m] \in 1 .. contracts[b]
    BY DEF OrphanInv, RowNumbers
  <2>2. \A m, n \in rows : number[m] = number[n] => m = n
    BY DEF OrphanInv, RowNumbers, SameNo
  <2>3. \A n \in 1 .. contracts[b] : \E m \in rows : number[m] = n
    BY <1>2, <1>3
  <2> HIDE DEF rows
  <2>4. number \in [rows -> 1 .. contracts[b]]
    BY <2>1
  <2> HIDE DEF number
  <2> QED BY <2>2, <2>3, <2>4, Fun_IsBij
<1> HIDE DEF rows, number
<1>5. contracts[b] \in Nat
  BY OrphanTypes
<1>6. IsFiniteSet(1 .. contracts[b]) /\ Cardinality(1 .. contracts[b]) = contracts[b]
  BY <1>5, FS_Interval
<1>7. ExistsBijection(rows, 1 .. contracts[b])
  BY <1>4 DEF ExistsBijection
<1>8. Cardinality(rows) = contracts[b]
  BY <1>6, <1>7, FS_Bijection, Fun_ExistsBijSymmetric
<1> QED BY <1>8 DEF rows

(* Without faults no contract is left without its rows, also when runs        *)
(* overlap and take each other's funds.                                    *)
THEOREM NoContractIsOrphaned == Spec => []NoOrphanContract
<1>1. DeploymentInv => NoOrphanContract
  BY ContractsHaveRows DEF DeploymentInv
<1> QED BY <1>1, DeploymentInvariant, PTL

=============================================================================
