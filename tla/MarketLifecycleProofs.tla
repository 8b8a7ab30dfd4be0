------------------------ MODULE MarketLifecycleProofs ------------------------
(***************************************************************************)
(* Proofs about the lifecycle of a market, for every number of overlapping *)
(* cron runs, requests and event handlers, and every bound: the row and    *)
(* the chain agree on closing, reporting and redeeming, a pause is always  *)
(* followed by a resume, and the runs that close and resolve the market    *)
(* never undo each other's work.                                           *)
(***************************************************************************)
EXTENDS LifecycleStages, TLAPS

(* The row of a new market is a row.                                        *)
LEMMA FirstRowType == FirstRow \in Row
BY FeesAssumption, DatesAssumption DEF FirstRow, Row

(* A run that does nothing is a run, at its only step.                      *)
LEMMA IdleType == Idle \in Task /\ Idle.at \in StepsOf(Idle.op)
BY FirstRowType DEF Idle, Task, StepsOf

(* The types are right at the start.                                        *)
LEMMA InitType == Init => TypeOK
<1> SUFFICES ASSUME Init PROVE TypeOK
  OBVIOUS
<1>1. task \in [Procs -> Task] /\ \A p \in Procs : task[p].at \in StepsOf(task[p].op)
  BY IdleType DEF Init
<1>2. now \in 0 .. MaxTime /\ faults \in 0 .. MaxFaults
  BY DatesAssumption DEF Init
<1> QED BY <1>1, <1>2, FirstRowType, FeesAssumption DEF Init, TypeOK

(* Types of the parts, in the form the steps below need them.              *)
LEMMA StartType ==
    ASSUME TypeOK, NEW p \in Procs, NEW op, NEW at, NEW ent, Start(p, op, at, ent),
           [op |-> op, at |-> at, ent |-> ent, diff |-> {}] \in Task,
           at \in StepsOf(op)
    PROVE  TypeOK'
BY DEF TypeOK, Start, chainVars

(* One run becomes another; the others stay.                                *)
LEMMA NewTaskType ==
    ASSUME TypeOK, NEW p \in Procs, NEW t \in Task, t.at \in StepsOf(t.op),
           task' = [task EXCEPT ![p] = t]
    PROVE  /\ task' \in [Procs -> Task]
           /\ \A q \in Procs : task'[q].at \in StepsOf(task'[q].op)
BY DEF TypeOK

(* A run that goes on to another await is still a run.                      *)
LEMMA TaskFields ==
    ASSUME TypeOK, NEW p \in Procs
    PROVE  /\ task[p] \in Task /\ task[p].ent \in Row
           /\ task[p].at \in StepsOf(task[p].op)
           /\ \A at \in {"idle", "close", "select", "update", "report", "pause", "change",
                         "resume", "restore", "redeem"} : [task[p] EXCEPT !.at = at] \in Task
BY DEF TypeOK, Task

(* A fault stays within the budget.                                         *)
LEMMA ThrowsType ==
    ASSUME TypeOK, NEW refused, Throws(refused)
    PROVE  faults' \in 0 .. MaxFaults
BY DatesAssumption DEF TypeOK, Throws

(* What a handler loads is a row, and so is what it assigns to it.         *)
LEMMA RequestType == ASSUME TypeOK, NEW p \in Procs, CronFinalizes(p) \/ Request(p) PROVE TypeOK'
<1>r. row \in Row /\ [row EXCEPT !.resolved = TRUE] \in Row
      /\ \A f \in Fees, d \in 1 .. MaxTime : [row EXCEPT !.fee = f, !.resolveAt = d] \in Row
  BY DEF TypeOK, Row
<1>1. CASE CronFinalizes(p) \/ ForceCloses(p)
  BY <1>1, <1>r, StartType DEF CronFinalizes, ForceCloses, Task, StepsOf
<1>2. CASE ManuallyResolves(p)
  BY <1>2, <1>r, StartType DEF ManuallyResolves, Task, StepsOf
<1>3. ASSUME NEW f \in Fees, NEW date \in 1 .. MaxTime, UpdatesFee(p, f, date) PROVE TypeOK'
  BY <1>3, <1>r, StartType DEF UpdatesFee, Task, StepsOf
<1>4. CASE UpdatesOther(p) \/ ChangesLiquidity(p)
  BY <1>4, <1>r, StartType DEF UpdatesOther, ChangesLiquidity, Task, StepsOf
<1>5. CASE Redeems(p)
  BY <1>5, <1>r, StartType DEF Redeems, Task, StepsOf
<1>6. CASE TradeLogged(p) \/ ResolutionLogged(p)
  BY <1>6, <1>r, StartType DEF TradeLogged, ResolutionLogged, Task, StepsOf
<1> QED BY <1>1, <1>2, <1>3, <1>4, <1>5, <1>6 DEF Request

(* The record a save leaves in the row.                                    *)
LEMMA PatchedType ==
    ASSUME TypeOK, NEW t \in Task
    PROVE  /\ Patched(t) \in Row
           /\ Patched(t).closed \in {t.ent.closed, row.closed}
           /\ Patched(t).resolved \in {t.ent.resolved, row.resolved}
           /\ Patched(t).fee \in {t.ent.fee, row.fee}
BY DEF TypeOK, Patched, Row, Task

(* What comes after a save is a step of the same run, or none.              *)
LEMMA AfterSaveType ==
    ASSUME NEW t \in Task, t.at \in StepsOf(t.op)
    PROVE  AfterSave(t) \in Task /\ AfterSave(t).at \in StepsOf(AfterSave(t).op)
<1>1. CASE t.op = "resolve"
  BY <1>1 DEF AfterSave, Task, StepsOf
<1>2. CASE t.op # "resolve"
  BY <1>2, IdleType DEF AfterSave
<1> QED BY <1>1, <1>2

(* Which operations stand at which awaits.                                 *)
LEMMA StepsAt ==
    ASSUME NEW t \in Task, t.at \in StepsOf(t.op)
    PROVE  /\ t.at = "close" => t.op \in {"finalize", "resolve"}
           /\ t.at = "report" => t.op = "resolve"
           /\ t.at \in {"pause", "change", "resume", "restore"} => t.op \in {"fee", "other", "liquidity"}
           /\ t.at \in {"select", "update"} => t.op \in {"finalize", "resolve", "trade", "resolution", "fee"}
           /\ t.at = "redeem" => t.op = "redeem"
BY DEF Task, StepsOf

(* Every step of a run that goes on keeps the types.                        *)
LEMMA ProceedType == ASSUME TypeOK, NEW p \in Procs, Proceeds(p) PROVE TypeOK'
<1> DEFINE t == task[p]
<1>t. t \in Task /\ t.at \in StepsOf(t.op) /\ t.ent \in Row
  BY TaskFields
<1>s. /\ t.at = "close" => t.op \in {"finalize", "resolve"}
      /\ t.at \in {"pause", "change", "resume", "restore"} => t.op \in {"fee", "other", "liquidity"}
  BY <1>t, StepsAt
<1>i. Idle \in Task /\ Idle.at \in StepsOf(Idle.op)
  BY IdleType
<1>1. CASE Close(p)
  <2>1. faults' \in 0 .. MaxFaults
    BY <1>1, ThrowsType DEF Close, TypeOK
  <2>2. [t EXCEPT !.at = "select", !.ent.closed = TRUE] \in Task
    BY <1>t DEF Task, Row
  <2>3. [t EXCEPT !.at = "select", !.ent.closed = TRUE].at
          \in StepsOf([t EXCEPT !.at = "select", !.ent.closed = TRUE].op)
    BY <1>1, <1>t, <1>s DEF Close, Task, StepsOf
  <2>4. \/ task' = [task EXCEPT ![p] = [t EXCEPT !.at = "select", !.ent.closed = TRUE]]
        \/ task' = [task EXCEPT ![p] = Idle]
    BY <1>1 DEF Close, CloseThrows, Ends, TypeOK
  <2>5. /\ task' \in [Procs -> Task]
        /\ \A q \in Procs : task'[q].at \in StepsOf(task'[q].op)
    BY <2>2, <2>3, <2>4, <1>i, NewTaskType
  <2>6. stage' \in {"Running", "Paused", "Closed"} /\ UNCHANGED <<now, row, reported, traded, fees>>
    BY <1>1 DEF Close, TypeOK
  <2> QED BY <2>1, <2>5, <2>6 DEF TypeOK
<1>2. CASE Report(p)
  <2>1. faults' \in 0 .. MaxFaults
    BY <1>2, ThrowsType DEF Report, TypeOK
  <2>2. /\ task' \in [Procs -> Task]
        /\ \A q \in Procs : task'[q].at \in StepsOf(task'[q].op)
    BY <1>2, <1>i, NewTaskType DEF Report, Ends
  <2> QED BY <1>2, <2>1, <2>2 DEF Report, TypeOK
<1>3. CASE Pause(p)
  <2>1. faults' \in 0 .. MaxFaults
    BY <1>3, ThrowsType DEF Pause, TypeOK
  <2>2. [t EXCEPT !.at = "change"] \in Task
    BY TaskFields
  <2>3. [t EXCEPT !.at = "change"].at \in StepsOf([t EXCEPT !.at = "change"].op)
    BY <1>3, <1>t, <1>s DEF Pause, Task, StepsOf
  <2>4. /\ task' \in [Procs -> Task]
        /\ \A q \in Procs : task'[q].at \in StepsOf(task'[q].op)
    BY <1>3, <2>2, <2>3, NewTaskType DEF Pause, GoTo
  <2> QED BY <1>3, <2>1, <2>4 DEF Pause, TypeOK
<1>4. CASE Change(p)
  <2>1. faults' \in 0 .. MaxFaults
    BY <1>4, ThrowsType DEF Change, TypeOK
  <2>2. \A at \in {"resume", "restore"} :
          [t EXCEPT !.at = at] \in Task /\ [t EXCEPT !.at = at].at \in StepsOf([t EXCEPT !.at = at].op)
    BY <1>4, <1>t, <1>s DEF Change, Task, StepsOf
  <2>3. \E at \in {"resume", "restore"} : task' = [task EXCEPT ![p] = [t EXCEPT !.at = at]]
    BY <1>4 DEF Change, ChangeThrows, GoTo
  <2>4. /\ task' \in [Procs -> Task]
        /\ \A q \in Procs : task'[q].at \in StepsOf(task'[q].op)
    BY <2>2, <2>3, NewTaskType
  <2>5. fees' \in SUBSET Fees
    BY <1>4, <1>t DEF Change, NewFees, TypeOK, Row
  <2>6. UNCHANGED <<now, row, stage, reported, traded>>
    BY <1>4 DEF Change
  <2> QED BY <2>1, <2>4, <2>5, <2>6 DEF TypeOK
<1>5. CASE Resume(p)
  <2>1. faults' \in 0 .. MaxFaults
    BY <1>5, ThrowsType DEF Resume, TypeOK
  <2>2. AfterResume(t) \in Task /\ AfterResume(t).at \in StepsOf(AfterResume(t).op)
    <3>1. CASE t.op = "fee" /\ t.at = "resume"
      BY <3>1, <1>t DEF AfterResume, Task, StepsOf
    <3>2. CASE ~(t.op = "fee" /\ t.at = "resume")
      BY <3>2, <1>i DEF AfterResume
    <3> QED BY <3>1, <3>2
  <2>3. task' = [task EXCEPT ![p] = AfterResume(t)] \/ task' = [task EXCEPT ![p] = Idle]
    BY <1>5 DEF Resume, Ends
  <2>4. /\ task' \in [Procs -> Task]
        /\ \A q \in Procs : task'[q].at \in StepsOf(task'[q].op)
    BY <2>2, <2>3, <1>i, NewTaskType
  <2>5. stage' \in {"Running", "Paused", "Closed"} /\ UNCHANGED <<now, row, reported, traded, fees>>
    BY <1>5 DEF Resume, TypeOK
  <2> QED BY <2>1, <2>4, <2>5 DEF TypeOK
<1>6. CASE RedeemCalled(p)
  <2>1. /\ task' \in [Procs -> Task]
        /\ \A q \in Procs : task'[q].at \in StepsOf(task'[q].op)
    BY <1>6, <1>i, NewTaskType DEF RedeemCalled, Ends
  <2> QED BY <1>6, <2>1 DEF RedeemCalled, chainVars, TypeOK
<1>7. CASE SelectForSave(p)
  <2>1. Differing(t.ent) \subseteq Column
    BY DEF Differing
  <2>2. [t EXCEPT !.at = "update", !.diff = Differing(t.ent)] \in Task
    BY <2>1, <1>t DEF Task
  <2>3. [t EXCEPT !.at = "update", !.diff = Differing(t.ent)].at
          \in StepsOf([t EXCEPT !.at = "update", !.diff = Differing(t.ent)].op)
    <3>1. t.op \in {"finalize", "resolve", "trade", "resolution", "fee"}
      BY <1>7, <1>t, StepsAt DEF SelectForSave
    <3> QED BY <3>1, <1>t DEF Task, StepsOf
  <2>4. \/ task' = [task EXCEPT ![p] = AfterSave(t)]
        \/ task' = [task EXCEPT ![p] = [t EXCEPT !.at = "update", !.diff = Differing(t.ent)]]
    BY <1>7 DEF SelectForSave
  <2>5. /\ task' \in [Procs -> Task]
        /\ \A q \in Procs : task'[q].at \in StepsOf(task'[q].op)
    BY <2>2, <2>3, <2>4, <1>t, AfterSaveType, NewTaskType
  <2> QED BY <1>7, <2>5 DEF SelectForSave, chainVars, TypeOK
<1>8. CASE UpdateOfSave(p)
  <2>1. row' \in Row
    BY <1>8, <1>t, PatchedType DEF UpdateOfSave
  <2>2. /\ task' \in [Procs -> Task]
        /\ \A q \in Procs : task'[q].at \in StepsOf(task'[q].op)
    BY <1>8, <1>t, AfterSaveType, NewTaskType DEF UpdateOfSave
  <2> QED BY <1>8, <2>1, <2>2 DEF UpdateOfSave, chainVars, TypeOK
<1> QED BY <1>1, <1>2, <1>3, <1>4, <1>5, <1>6, <1>7, <1>8 DEF Proceeds

(* And every step of the system.                                            *)
LEMMA NextType == TypeOK /\ [Next]_vars => TypeOK'
<1> SUFFICES ASSUME TypeOK, [Next]_vars PROVE TypeOK'
  OBVIOUS
<1>1. CASE Tick
  BY <1>1, DatesAssumption DEF Tick, TypeOK, chainVars
<1>2. CASE UserTrades
  BY <1>2 DEF UserTrades, TypeOK
<1>3. CASE SoftRemoves
  <2>1. row' \in Row
    BY <1>3 DEF SoftRemoves, TypeOK, Row
  <2> QED BY <1>3, <2>1 DEF SoftRemoves, TypeOK, chainVars
<1>4. CASE Crash
  <2>1. task' \in [Procs -> Task] /\ \A p \in Procs : task'[p].at \in StepsOf(task'[p].op)
    BY <1>4, IdleType DEF Crash
  <2>2. faults' \in 0 .. MaxFaults
    BY <1>4, DatesAssumption DEF Crash, TypeOK
  <2> QED BY <1>4, <2>1, <2>2 DEF Crash, TypeOK, chainVars
<1>5. ASSUME NEW p \in Cron, CronFinalizes(p) PROVE TypeOK'
  BY <1>5, RequestType DEF Procs
<1>6. ASSUME NEW p \in Server, Request(p) PROVE TypeOK'
  BY <1>6, RequestType DEF Procs
<1>7. ASSUME NEW p \in Procs, Proceeds(p) PROVE TypeOK'
  BY <1>7, ProceedType
<1>8. CASE UNCHANGED vars
  BY <1>8 DEF vars, TypeOK
<1> QED BY <1>1, <1>2, <1>3, <1>4, <1>5, <1>6, <1>7, <1>8 DEF Next

(* Every variable has its type, and every run stands at an await of the     *)
(* function it runs.                                                       *)
THEOREM TypeCorrect == Spec => []TypeOK
BY InitType, NextType, PTL DEF Spec

-----------------------------------------------------------------------------
(* The row, the copies and the chain                                       *)

Closing(t) == t.op \in {"finalize", "resolve"} /\ t.at \in {"select", "update"}

(* What the copy of a run implies about the chain.                         *)
TaskInv(t) ==
    /\ t.ent.closed => stage = "Closed"
    /\ t.ent.resolved => reported
    /\ t.at = "redeem" => reported
    /\ t.at = "report" => t.ent.closed
    /\ Closing(t) => t.ent.closed
    /\ t.op = "resolution" => t.ent.closed /\ t.ent.resolved
    /\ t.ent.fee \in fees \/ (t.op = "fee" /\ t.at \in {"pause", "change", "restore"})

RowInv ==
    /\ row.closed => stage = "Closed"
    /\ row.resolved => reported
    /\ reported => stage = "Closed"
    /\ row.fee \in fees
    /\ FirstFee \in fees

(* While a run that has closed the contract is saving closed_at, nobody     *)
(* else knows of it: the payouts cannot be reported yet.                   *)
CloserInv ==
    \A p \in Procs : Closing(task[p]) =>
        ~reported /\ ~row.closed /\ \A q \in Procs \ {p} : ~task[q].ent.closed

SafeInv == RowInv /\ (\A p \in Procs : TaskInv(task[p])) /\ CloserInv

(* At the start the row tells of an open market, and nobody works on it.    *)
LEMMA SafeInit == Init => SafeInv
BY DEF Init, Idle, FirstRow, SafeInv, RowInv, TaskInv, Closing, CloserInv

(* A closed contract stays closed, a report stays, past fees stay.         *)
LEMMA ChainGrows ==
    ASSUME TypeOK, [Next]_vars
    PROVE  /\ stage = "Closed" => stage' = "Closed"
           /\ reported => reported'
           /\ fees \subseteq fees'
<1>1. CASE Tick \/ UserTrades \/ SoftRemoves \/ Crash \/ UNCHANGED vars
  BY <1>1 DEF Tick, UserTrades, SoftRemoves, Crash, chainVars, vars
<1>2. ASSUME NEW p \in Procs, CronFinalizes(p) \/ Request(p) PROVE UNCHANGED chainVars
  BY <1>2 DEF Request, CronFinalizes, ForceCloses, ManuallyResolves, UpdatesFee, UpdatesOther,
              ChangesLiquidity, Redeems, TradeLogged, ResolutionLogged, Start
<1>3. ASSUME NEW p \in Procs, Proceeds(p)
      PROVE  /\ stage = "Closed" => stage' = "Closed"
             /\ reported => reported'
             /\ fees \subseteq fees'
  <2>1. CASE Close(p)
    BY <2>1 DEF Close
  <2>5. CASE Report(p)
    <3>1. (~reported /\ reported' = TRUE) \/ reported' \in {reported, TRUE}
      BY <2>5 DEF Report
    <3>2. reported \in BOOLEAN
      BY DEF TypeOK
    <3>3. reported => reported'
      BY <3>1, <3>2
    <3> QED BY <2>5, <3>3 DEF Report
  <2>4. CASE Pause(p) \/ Resume(p)
    BY <2>4 DEF Pause, Resume
  <2>2. CASE Change(p)
    BY <2>2 DEF Change
  <2>3. CASE RedeemCalled(p) \/ SelectForSave(p) \/ UpdateOfSave(p)
    BY <2>3 DEF RedeemCalled, SelectForSave, UpdateOfSave, chainVars
  <2> QED BY <1>3, <2>1, <2>2, <2>3, <2>4, <2>5 DEF Proceeds
<1> QED BY <1>1, <1>2, <1>3 DEF Next, Procs, chainVars

(* A run that did not move keeps what its copy implies.                    *)
LEMMA StillTask ==
    ASSUME TypeOK, SafeInv, [Next]_vars, NEW q \in Procs, task'[q] = task[q]
    PROVE  TaskInv(task[q])'
BY ChainGrows DEF SafeInv, TaskInv, Closing

(* A run that does nothing claims nothing.                                  *)
LEMMA IdleInv ==
    ASSUME TypeOK, SafeInv, [Next]_vars, NEW q \in Procs, task'[q] = Idle 
    PROVE  TaskInv(task[q])'
BY ChainGrows DEF SafeInv, RowInv, TaskInv, Closing, Idle, FirstRow

(* A run that starts with a copy of the row, or with what it changed in it. *)
LEMMA StartSafe ==
    ASSUME TypeOK, SafeInv, [Next]_vars, NEW p \in Procs, NEW op, NEW at, NEW ent,
           Start(p, op, at, ent),
           ent.closed = row.closed,
           ent.resolved => reported,
           at = "redeem" => row.resolved,
           at = "report" => row.closed,
           at = "select" => op \notin {"finalize", "resolve"},
           at # "update",
           op = "resolution" => ent.closed /\ ent.resolved,
           ent.fee = row.fee \/ (op = "fee" /\ at = "pause")
    PROVE  SafeInv'
<1> DEFINE new == [op |-> op, at |-> at, ent |-> ent, diff |-> {}]
<1>1. /\ UNCHANGED <<row, stage, reported, fees>>
      /\ task' = [task EXCEPT ![p] = new]
      /\ task[p] = Idle
  BY DEF Start, chainVars
<1>2. /\ new.op = op /\ new.at = at /\ new.ent = ent
      /\ task'[p] = new
      /\ \A q \in Procs : q # p => task'[q] = task[q]
  BY <1>1 DEF TypeOK
<1> HIDE DEF new
<1>3. RowInv'
  BY <1>1 DEF SafeInv, RowInv
<1>4. TaskInv(task[p])'
  BY <1>1, <1>2 DEF SafeInv, RowInv, TaskInv, Closing
<1>5. ASSUME NEW q \in Procs PROVE TaskInv(task[q])'
  BY <1>2, <1>4, StillTask
<1>6. CloserInv'
  BY <1>1, <1>2 DEF SafeInv, CloserInv, Closing
<1> QED BY <1>3, <1>5, <1>6 DEF SafeInv

(* A run that starts works on a copy of the row.                            *)
LEMMA RequestSafe ==
    ASSUME TypeOK, SafeInv, [Next]_vars, NEW p \in Procs, CronFinalizes(p) \/ Request(p)
    PROVE  SafeInv'
<1>r. row \in Row /\ (row.resolved => reported)
  BY DEF TypeOK, SafeInv, RowInv
<1>1. CASE CronFinalizes(p) \/ ForceCloses(p)
  BY <1>1, <1>r, StartSafe DEF CronFinalizes, ForceCloses
<1>2. CASE ManuallyResolves(p)
  BY <1>2, <1>r, StartSafe DEF ManuallyResolves
<1>3. ASSUME NEW f \in Fees, NEW date \in 1 .. MaxTime, UpdatesFee(p, f, date)
      PROVE  SafeInv'
  <2> DEFINE e == [row EXCEPT !.fee = f, !.resolveAt = date]
  <2>1. e.closed = row.closed /\ e.resolved = row.resolved /\ e.fee = f
    BY <1>r DEF Row
  <2>2. Start(p, "fee", IF f = row.fee THEN "select" ELSE "pause", e)
    BY <1>3 DEF UpdatesFee
  <2> HIDE DEF e
  <2> QED BY <2>1, <2>2, <1>r, StartSafe
<1>4. CASE UpdatesOther(p) \/ ChangesLiquidity(p)
  BY <1>4, <1>r, StartSafe DEF UpdatesOther, ChangesLiquidity
<1>5. CASE Redeems(p)
  BY <1>5, <1>r, StartSafe DEF Redeems
<1>6. CASE TradeLogged(p)
  BY <1>6, <1>r, StartSafe DEF TradeLogged
<1>7. CASE ResolutionLogged(p)
  <2> DEFINE e == [row EXCEPT !.resolved = TRUE]
  <2>1. e.closed = row.closed /\ e.resolved /\ e.fee = row.fee
    BY <1>r DEF Row
  <2>2. Start(p, "resolution", "select", e) /\ reported /\ row.closed
    BY <1>7 DEF ResolutionLogged
  <2> HIDE DEF e
  <2> QED BY <2>1, <2>2, <1>r, StartSafe
<1> QED BY <1>1, <1>2, <1>3, <1>4, <1>5, <1>6, <1>7 DEF Request

(* A step of one run that sets its task to Idle and leaves the row alone.   *)
LEMMA EndsSafe ==
    ASSUME TypeOK, SafeInv, [Next]_vars, NEW p \in Procs, Ends(p), RowInv',
           row' = row, reported' = reported \/ ~(\E q \in Procs \ {p} : Closing(task[q]))
    PROVE  SafeInv'
<1>1. task'[p] = Idle /\ \A q \in Procs : q # p => task'[q] = task[q]
  BY DEF Ends, TypeOK
<1>2. ASSUME NEW q \in Procs PROVE TaskInv(task[q])'
  BY <1>1, StillTask, IdleInv
<1>3. CloserInv'
  BY <1>1 DEF SafeInv, CloserInv, Closing, Idle, FirstRow
<1> QED BY <1>2, <1>3 DEF SafeInv

(* A step of one run that moves it to an await of the same operation that   *)
(* is neither a save, nor a report, nor a redemption.                      *)
LEMMA GoToSafe ==
    ASSUME TypeOK, SafeInv, [Next]_vars, NEW p \in Procs, RowInv', row' = row, reported' = reported,
           NEW at \in {"change", "resume", "restore", "select"}, GoTo(p, at),
           task[p].op \notin {"finalize", "resolve"},
           task[p].op = "fee" /\ at \in {"resume", "select"} => task[p].ent.fee \in fees'
    PROVE  SafeInv'
<1>1. /\ task'[p].op = task[p].op /\ task'[p].at = at /\ task'[p].ent = task[p].ent
      /\ \A q \in Procs : q # p => task'[q] = task[q]
  BY DEF GoTo, TypeOK, Task
<1>2. TaskInv(task[p])
  BY DEF SafeInv
<1>3. TaskInv(task[p])'
  BY <1>1, <1>2, ChainGrows DEF TaskInv, Closing
<1>4. ASSUME NEW q \in Procs PROVE TaskInv(task[q])'
  BY <1>1, <1>3, StillTask
<1>5. CloserInv'
  BY <1>1 DEF SafeInv, CloserInv, Closing
<1> QED BY <1>4, <1>5 DEF SafeInv

(* The contract was open before this close, so no copy is closed: the run   *)
(* is the only one that knows.                                             *)
LEMMA CloseSafe ==
    ASSUME TypeOK, SafeInv, [Next]_vars, NEW p \in Procs, Close(p)
    PROVE  SafeInv'
<1>0. stage' = stage \/ stage' = "Closed"
  BY DEF Close
<1>1. RowInv' /\ UNCHANGED <<row, reported, fees>>
  BY <1>0 DEF Close, SafeInv, RowInv
<1>2. CASE Ends(p)
  BY <1>1, <1>2, EndsSafe
<1>3. CASE /\ stage # "Closed" /\ stage' = "Closed"
           /\ task' = [task EXCEPT ![p].at = "select", ![p].ent.closed = TRUE]
  <2>1. /\ task'[p].op = task[p].op /\ task'[p].at = "select" /\ task'[p].ent.closed
        /\ task'[p].ent.resolved = task[p].ent.resolved /\ task'[p].ent.fee = task[p].ent.fee
        /\ task[p].op \in {"finalize", "resolve"}
        /\ \A q \in Procs : q # p => task'[q] = task[q]
    <3>1. task[p] \in Task /\ task[p].at \in StepsOf(task[p].op) /\ task[p].at = "close"
      BY TaskFields DEF Close
    <3>2. task[p].op \in {"finalize", "resolve"}
      BY <3>1, StepsAt
    <3>3. task'[p] = [task[p] EXCEPT !.at = "select", !.ent.closed = TRUE]
      BY <1>3 DEF TypeOK
    <3>4. \A q \in Procs : q # p => task'[q] = task[q]
      BY <1>3 DEF TypeOK
    <3> QED BY <3>1, <3>2, <3>3, <3>4 DEF Task, Row
  <2>2. TaskInv(task[p])
    BY DEF SafeInv
  <2>3. TaskInv(task[p])'
    BY <1>1, <1>3, <2>1, <2>2 DEF TaskInv, Closing
  <2>4. ASSUME NEW q \in Procs PROVE TaskInv(task[q])'
    BY <2>1, <2>3, StillTask
  <2>5. ~reported /\ ~row.closed /\ \A q \in Procs : ~task[q].ent.closed /\ ~Closing(task[q])
    BY <1>3 DEF SafeInv, RowInv, TaskInv
  <2>6. CloserInv'
    BY <1>1, <2>1, <2>5 DEF CloserInv, Closing
  <2> QED BY <1>1, <2>4, <2>6 DEF SafeInv
<1> QED BY <1>2, <1>3 DEF Close, CloseThrows

(* Only a closed copy is reported, and then no run is still closing.        *)
LEMMA ReportSafe ==
    ASSUME TypeOK, SafeInv, [Next]_vars, NEW p \in Procs, Report(p)
    PROVE  SafeInv'
<1>1. task[p].ent.closed /\ stage = "Closed"
  BY DEF Report, SafeInv, TaskInv
<1>2. ~(\E q \in Procs \ {p} : Closing(task[q]))
  BY <1>1 DEF SafeInv, CloserInv
<1>3. RowInv' /\ row' = row
  <2>1. UNCHANGED <<row, stage, fees>> /\ (reported => reported')
    BY ChainGrows DEF Report
  <2> QED BY <1>1, <2>1 DEF SafeInv, RowInv
<1> QED BY <1>2, <1>3, EndsSafe DEF Report

(* Pause, change of the fee and resumption are justified by the copy.       *)
LEMMA FeeStepsSafe ==
    ASSUME TypeOK, SafeInv, [Next]_vars, NEW p \in Procs, Pause(p) \/ Change(p) \/ Resume(p)
    PROVE  SafeInv'
<1>t. task[p] \in Task /\ task[p].at \in StepsOf(task[p].op)
      /\ task[p].at \in {"pause", "change", "resume", "restore"}
  BY TaskFields DEF Pause, Change, Resume
<1>o. task[p].op \in {"fee", "other", "liquidity"}
  BY <1>t, StepsAt
<1>g. /\ stage = "Closed" => stage' = "Closed"
      /\ fees \subseteq fees'
  BY ChainGrows
<1>1. row' = row /\ reported' = reported
  BY DEF Pause, Change, Resume
<1>2. RowInv'
  BY <1>1, <1>g DEF SafeInv, RowInv
<1>3. CASE Pause(p)
  BY <1>1, <1>2, <1>3, <1>o, GoToSafe DEF Pause
<1>4. CASE Change(p)
  <2>1. CASE GoTo(p, "resume") /\ fees' = fees \union NewFees(p)
    <3>1. task[p].op = "fee" => task[p].ent.fee \in fees'
      BY <2>1 DEF NewFees
    <3> QED BY <2>1, <3>1, <1>1, <1>2, <1>o, GoToSafe
  <2>2. CASE GoTo(p, "restore")
    BY <2>2, <1>1, <1>2, <1>o, GoToSafe
  <2> QED BY <1>4, <2>1, <2>2 DEF Change, ChangeThrows
<1>5. CASE Resume(p)
  <2>1. CASE Ends(p)
    BY <2>1, <1>1, <1>2, EndsSafe
  <2>2. CASE task' = [task EXCEPT ![p] = AfterResume(task[p])]
    <3>1. CASE task[p].op = "fee" /\ task[p].at = "resume"
      <4>1. GoTo(p, "select")
        BY <2>2, <3>1 DEF AfterResume, GoTo, TypeOK
      <4>2. task[p].ent.fee \in fees'
        BY <3>1, <1>g DEF SafeInv, TaskInv
      <4> QED BY <4>1, <4>2, <1>1, <1>2, <1>o, GoToSafe
    <3>2. CASE ~(task[p].op = "fee" /\ task[p].at = "resume")
      BY <2>2, <3>2, <1>1, <1>2, EndsSafe DEF AfterResume, Ends
    <3> QED BY <3>1, <3>2
  <2> QED BY <1>5, <2>1, <2>2 DEF Resume
<1> QED BY <1>3, <1>4, <1>5

(* After a save: only manualResolve goes on, and it saved a closed copy.    *)
LEMMA AfterSaveFields ==
    ASSUME TypeOK, SafeInv, [Next]_vars, NEW p \in Procs, task[p].at \in {"select", "update"},
           task' = [task EXCEPT ![p] = AfterSave(task[p])]
    PROVE  /\ TaskInv(task[p])'
           /\ ~Closing(task'[p])
           /\ task'[p].ent.closed => task[p].ent.closed
           /\ \A q \in Procs : q # p => task'[q] = task[q]
<1>0. \A q \in Procs : q # p => task'[q] = task[q]
  BY DEF TypeOK
<1>t. task[p] \in Task /\ TaskInv(task[p])
  BY TaskFields DEF SafeInv
<1>1. CASE task[p].op = "resolve"
  <2>1. task'[p].op = "resolve" /\ task'[p].at = "report" /\ task'[p].ent = task[p].ent
    BY <1>1, <1>t DEF AfterSave, TypeOK, Task
  <2>2. task[p].ent.closed /\ task[p].ent.fee \in fees
    BY <1>1, <1>t DEF TaskInv, Closing
  <2>3. TaskInv(task[p])'
    BY <2>1, <2>2, <1>t, ChainGrows DEF TaskInv, Closing
  <2> QED BY <1>0, <2>1, <2>3 DEF Closing
<1>2. CASE task[p].op # "resolve"
  <2>1. task'[p] = Idle
    BY <1>2 DEF AfterSave, TypeOK
  <2>2. ~Closing(Idle) /\ ~Idle.ent.closed
    BY DEF Closing, Idle, FirstRow
  <2>3. TaskInv(task[p])'
    BY <2>1, IdleInv
  <2> QED BY <1>0, <2>1, <2>2, <2>3
<1> QED BY <1>1, <1>2

(* The SELECT of a save finds which columns differ.                         *)
LEMMA SelectSafe ==
    ASSUME TypeOK, SafeInv, [Next]_vars, NEW p \in Procs, SelectForSave(p)
    PROVE  SafeInv'
<1>1. UNCHANGED <<row, stage, reported, fees>> /\ task[p].at = "select"
  BY DEF SelectForSave, chainVars
<1>2. RowInv'
  BY <1>1 DEF SafeInv, RowInv
<1>3. CASE task' = [task EXCEPT ![p] = AfterSave(task[p])]
  <2>1. CloserInv'
    BY <1>1, <1>3, AfterSaveFields DEF SafeInv, CloserInv
  <2>2. ASSUME NEW q \in Procs PROVE TaskInv(task[q])'
    BY <1>1, <1>3, AfterSaveFields, StillTask
  <2> QED BY <1>2, <2>1, <2>2 DEF SafeInv
<1>4. CASE task' = [task EXCEPT ![p] = [task[p] EXCEPT !.at = "update", !.diff = Differing(task[p].ent)]]
  <2>1. /\ task'[p].op = task[p].op /\ task'[p].at = "update" /\ task'[p].ent = task[p].ent
        /\ \A q \in Procs : q # p => task'[q] = task[q]
    BY <1>4 DEF TypeOK, Task
  <2>2. TaskInv(task[p])
    BY DEF SafeInv
  <2>3. TaskInv(task[p])'
    BY <1>1, <2>1, <2>2 DEF TaskInv, Closing
  <2>4. ASSUME NEW q \in Procs PROVE TaskInv(task[q])'
    BY <2>1, <2>3, StillTask
  <2>5. CloserInv'
    BY <1>1, <2>1 DEF SafeInv, CloserInv, Closing
  <2> QED BY <1>2, <2>4, <2>5 DEF SafeInv
<1> QED BY <1>3, <1>4 DEF SelectForSave

(* The UPDATE of a save writes columns of a copy, which say what is true.   *)
LEMMA UpdateSafe ==
    ASSUME TypeOK, SafeInv, [Next]_vars, NEW p \in Procs, UpdateOfSave(p)
    PROVE  SafeInv'
<1>1. /\ UNCHANGED <<stage, reported, fees>> /\ task[p].at = "update"
      /\ row' = Patched(task[p]) /\ task' = [task EXCEPT ![p] = AfterSave(task[p])]
  BY DEF UpdateOfSave, chainVars
<1>2. task[p] \in Task /\ TaskInv(task[p])
  BY TaskFields DEF SafeInv
<1>3. /\ row'.closed \in {task[p].ent.closed, row.closed}
      /\ row'.resolved \in {task[p].ent.resolved, row.resolved}
      /\ row'.fee \in {task[p].ent.fee, row.fee}
  BY <1>1, <1>2, PatchedType
<1>4. RowInv'
  BY <1>1, <1>2, <1>3 DEF SafeInv, RowInv, TaskInv
<1>5. ASSUME NEW q \in Procs PROVE TaskInv(task[q])'
  BY <1>1, AfterSaveFields, StillTask
<1>6. CloserInv'
  BY <1>1, <1>3, AfterSaveFields DEF SafeInv, CloserInv
<1> QED BY <1>4, <1>5, <1>6 DEF SafeInv

(* Every step keeps the invariant.                                          *)
LEMMA SafeStep == TypeOK /\ SafeInv /\ [Next]_vars => SafeInv'
<1> SUFFICES ASSUME TypeOK, SafeInv, [Next]_vars PROVE SafeInv'
  OBVIOUS
<1>0. ASSUME UNCHANGED task, UNCHANGED <<reported, fees>>, stage' = stage,
             row'.closed = row.closed, row'.resolved = row.resolved, row'.fee = row.fee
      PROVE  SafeInv'
  <2>1. RowInv' /\ CloserInv'
    BY <1>0 DEF SafeInv, RowInv, CloserInv, Closing
  <2>2. ASSUME NEW q \in Procs PROVE TaskInv(task[q])'
    BY <1>0, StillTask
  <2> QED BY <2>1, <2>2 DEF SafeInv
<1>1. CASE Tick \/ UserTrades \/ UNCHANGED vars
  BY <1>0, <1>1 DEF Tick, UserTrades, vars, chainVars
<1>2. CASE SoftRemoves
  <2>1. row'.closed = row.closed /\ row'.resolved = row.resolved /\ row'.fee = row.fee
    BY <1>2 DEF SoftRemoves, TypeOK, Row
  <2> QED BY <1>0, <1>2, <2>1 DEF SoftRemoves, chainVars
<1>3. CASE Crash
  <2>1. UNCHANGED <<row, stage, reported, fees>> /\ \A q \in Procs : task'[q] = Idle
    BY <1>3 DEF Crash, chainVars
  <2>2. ASSUME NEW q \in Procs PROVE TaskInv(task[q])'
    BY <2>1, IdleInv
  <2>3. RowInv' /\ CloserInv'
    BY <2>1 DEF SafeInv, RowInv, CloserInv, Closing, Idle
  <2> QED BY <2>2, <2>3 DEF SafeInv
<1>4. ASSUME NEW p \in Cron, CronFinalizes(p) PROVE SafeInv'
  BY <1>4, RequestSafe DEF Procs
<1>5. ASSUME NEW p \in Server, Request(p) PROVE SafeInv'
  BY <1>5, RequestSafe DEF Procs
<1>6. ASSUME NEW p \in Procs, Proceeds(p) PROVE SafeInv'
  <2>1. CASE RedeemCalled(p)
    <3>1. UNCHANGED <<row, stage, reported, fees>> /\ Ends(p)
      BY <2>1 DEF RedeemCalled, chainVars
    <3>2. RowInv'
      BY <3>1 DEF SafeInv, RowInv
    <3> QED BY <3>1, <3>2, EndsSafe
  <2>2. CASE Close(p) \/ Report(p)
    BY <2>2, CloseSafe, ReportSafe
  <2>3. CASE Pause(p) \/ Change(p) \/ Resume(p)
    BY <2>3, FeeStepsSafe
  <2>4. CASE SelectForSave(p) \/ UpdateOfSave(p)
    BY <2>4, SelectSafe, UpdateSafe
  <2> QED BY <1>6, <2>1, <2>2, <2>3, <2>4 DEF Proceeds
<1> QED BY <1>1, <1>2, <1>3, <1>4, <1>5, <1>6 DEF Next

(* So it holds always.                                                      *)
LEMMA SafeAlways == Spec => []SafeInv
<1>1. TypeOK /\ TypeOK' /\ SafeInv /\ [Next]_vars => SafeInv'
  BY SafeStep
<1> QED BY <1>1, SafeInit, TypeCorrect, PTL DEF Spec

(* closed_at, in the row or in a copy, means that the contract is closed.   *)
THEOREM ClosedMeansClosed == Spec => []ClosedOnlyAfterChain
<1>1. SafeInv => ClosedOnlyAfterChain
  BY DEF SafeInv, RowInv, TaskInv, ClosedOnlyAfterChain
<1> QED BY <1>1, SafeAlways, PTL

(* The payouts are reported of closed contracts only.                      *)
THEOREM CloseBeforeReport == Spec => []ReportedAfterClose
<1>1. SafeInv => ReportedAfterClose
  BY DEF SafeInv, RowInv, ReportedAfterClose
<1> QED BY <1>1, SafeAlways, PTL

(* resolved_at, and a redemption on its way, mean that payouts are reported. *)
THEOREM RedeemAfterReport == Spec => []RedeemOnlyReported
<1>1. SafeInv => RedeemOnlyReported
  BY DEF SafeInv, RowInv, TaskInv, RedeemOnlyReported
<1> QED BY <1>1, SafeAlways, PTL

(* The fee column holds a fee the contract has had.                        *)
THEOREM RowFeeIsAChainFee == Spec => []RowFeeWasOnChain
<1>1. SafeInv => RowFeeWasOnChain
  BY DEF SafeInv, RowInv, RowFeeWasOnChain
<1> QED BY <1>1, SafeAlways, PTL

-----------------------------------------------------------------------------
(* Only a stale copy of a trade handler or of an update unsets closed_at or  *)
(* resolved_at: the other runs that save, save a closed copy, and when they  *)
(* save an unresolved one, the payouts are not reported yet.               *)
THEOREM ClosersDoNotUndo == Spec => ClosersNeverUndo
<1> DEFINE Undone == (row.closed /\ ~row'.closed) \/ (row.resolved /\ ~row'.resolved)
           ByStale == \E p \in Procs : task[p].at = "update" /\ task[p].op \in {"trade", "fee"}
<1>1. TypeOK /\ SafeInv /\ [Next]_vars => [Undone => ByStale]_vars
  <2> SUFFICES ASSUME TypeOK, SafeInv, [Next]_vars, Undone PROVE ByStale
    OBVIOUS
  <2>1. ASSUME NEW p \in Procs, UpdateOfSave(p) PROVE ByStale
    <3>1. task[p] \in Task /\ task[p].at = "update" /\ TaskInv(task[p])
          /\ task[p].op \in {"finalize", "resolve", "trade", "resolution", "fee"}
      BY <2>1, TaskFields, StepsAt DEF UpdateOfSave, SafeInv
    <3>2. /\ row'.closed \in {task[p].ent.closed, row.closed}
          /\ row'.resolved \in {task[p].ent.resolved, row.resolved}
      BY <2>1, <3>1, PatchedType DEF UpdateOfSave
    <3>3. CASE task[p].op \in {"finalize", "resolve"}
      <4>1. task[p].ent.closed /\ ~reported
        BY <3>1, <3>3 DEF Closing, TaskInv, SafeInv, CloserInv
      <4>2. ~row.resolved
        BY <4>1 DEF SafeInv, RowInv
      <4> QED BY <3>2, <4>1, <4>2
    <3>4. CASE task[p].op = "resolution"
      BY <3>1, <3>2, <3>4 DEF TaskInv
    <3>5. CASE task[p].op \in {"trade", "fee"}
      BY <3>1, <3>5
    <3> QED BY <3>1, <3>3, <3>4, <3>5
  <2>2. CASE SoftRemoves
    BY <2>2 DEF SoftRemoves, TypeOK, Row
  <2>3. CASE UNCHANGED row
    BY <2>3
  <2>4. ASSUME NEW p \in Procs, CronFinalizes(p) \/ Request(p) PROVE UNCHANGED row
    BY <2>4 DEF Request, CronFinalizes, ForceCloses, ManuallyResolves, UpdatesFee, UpdatesOther,
                ChangesLiquidity, Redeems, TradeLogged, ResolutionLogged, Start
  <2>5. ASSUME NEW p \in Procs, Proceeds(p), ~UpdateOfSave(p) PROVE UNCHANGED row
    BY <2>5 DEF Proceeds, Close, Report, Pause, Change, Resume, RedeemCalled, SelectForSave
  <2>6. CASE Tick \/ UserTrades \/ Crash \/ UNCHANGED vars
    BY <2>3, <2>6 DEF Tick, UserTrades, Crash, vars
  <2> QED BY <2>1, <2>2, <2>3, <2>4, <2>5, <2>6 DEF Next, Procs
<1> QED BY <1>1, TypeCorrect, SafeAlways, PTL DEF Spec, ClosersNeverUndo

-----------------------------------------------------------------------------
(* Pausing: whoever stands between its pause and its resume will resume.    *)
LEMMA OwnerInit == Init => PausedHasOwner
BY DEF Init, PausedHasOwner

(* Without a fault the run that pauses the contract goes on to resume it.   *)
LEMMA OwnerStep == TypeOK /\ PausedHasOwner /\ [Next]_vars => PausedHasOwner'
<1> SUFFICES ASSUME TypeOK, PausedHasOwner, [Next]_vars, stage' = "Paused", faults' = 0
             PROVE  \E p \in Procs : task'[p].at \in {"change", "resume", "restore"}
  BY DEF PausedHasOwner
<1>f. faults \in Nat /\ task \in [Procs -> Task]
  BY DatesAssumption DEF TypeOK
<1>1. ASSUME NEW p \in Procs, Pause(p) PROVE task'[p].at = "change"
  BY <1>1, <1>f DEF Pause, GoTo, Task
<1>2. ASSUME NEW p \in Procs, Change(p) PROVE task'[p].at \in {"resume", "restore"}
  BY <1>2, <1>f DEF Change, ChangeThrows, GoTo, Task
<1>3. ASSUME NEW p \in Procs, Resume(p) \/ Close(p) PROVE FALSE
  BY <1>3, <1>f DEF Resume, Close, Throws
<1>4. ASSUME stage = "Paused", faults = 0, NEW p \in Procs,
             task[p].at \notin {"change", "resume", "restore"},
             \A q \in Procs : q # p => task'[q] = task[q]
      PROVE  \E q \in Procs : task'[q].at \in {"change", "resume", "restore"}
  <2>1. PICK q \in Procs : task[q].at \in {"change", "resume", "restore"}
    BY <1>4 DEF PausedHasOwner
  <2> QED BY <1>4, <2>1
<1>5. ASSUME NEW p \in Procs, CronFinalizes(p) \/ Request(p)
      PROVE  \E q \in Procs : task'[q].at \in {"change", "resume", "restore"}
  <2>1. /\ task[p] = Idle /\ UNCHANGED <<stage, faults>>
        /\ \A q \in Procs : q # p => task'[q] = task[q]
    BY <1>5, <1>f DEF Request, CronFinalizes, ForceCloses, ManuallyResolves, UpdatesFee, UpdatesOther,
                      ChangesLiquidity, Redeems, TradeLogged, ResolutionLogged, Start, chainVars
  <2> QED BY <2>1, <1>4 DEF Idle
<1>6. ASSUME NEW p \in Procs, Report(p) \/ RedeemCalled(p) \/ SelectForSave(p) \/ UpdateOfSave(p)
      PROVE  \E q \in Procs : task'[q].at \in {"change", "resume", "restore"}
  <2>1. /\ task[p].at \in {"report", "redeem", "select", "update"}
        /\ \A q \in Procs : q # p => task'[q] = task[q]
    BY <1>6, <1>f DEF Report, RedeemCalled, SelectForSave, UpdateOfSave, Ends
  <2>2. stage = "Paused" /\ faults = 0
    <3>1. stage' = stage /\ (faults' = faults \/ faults' = faults + 1)
      <4>1. CASE Report(p)
        BY <4>1 DEF Report, Throws
      <4>2. CASE RedeemCalled(p) \/ SelectForSave(p) \/ UpdateOfSave(p)
        BY <4>2 DEF RedeemCalled, SelectForSave, UpdateOfSave, chainVars
      <4> QED BY <1>6, <4>1, <4>2
    <3> QED BY <3>1, <1>f
  <2> QED BY <2>1, <2>2, <1>4
<1>7. CASE Crash
  BY <1>7, <1>f DEF Crash
<1>8. CASE Tick \/ UserTrades \/ SoftRemoves \/ UNCHANGED vars
  <2>1. UNCHANGED <<stage, faults, task>>
    BY <1>8 DEF Tick, UserTrades, SoftRemoves, vars, chainVars
  <2> QED BY <2>1 DEF PausedHasOwner
<1> QED BY <1>1, <1>2, <1>3, <1>5, <1>6, <1>7, <1>8 DEF Next, Proceeds, Procs

(* As long as nothing fails, a paused market has a run that will resume it. *)
THEOREM PausedMarketIsOwned == Spec => []PausedHasOwner
<1>1. TypeOK /\ TypeOK' /\ PausedHasOwner /\ [Next]_vars => PausedHasOwner'
  BY OwnerStep
<1> QED BY <1>1, OwnerInit, TypeCorrect, PTL DEF Spec

(***************************************************************************)
(* MarketLifecycle implements MarketStages, for every number of overlapping *)
(* runs and every bound. The invariant SafeInv does most of it:   *)
(* what the row tells after a step is true of the chain, so that every step *)
(* that leaves the chain alone is a Write.                                  *)
(***************************************************************************)

(* A new market is open, and its row says so.                               *)
LEMMA StagesInit == Init => S!Init
BY DEF Init, S!Init, Phase, Known, FirstRow

(* The row after a step tells of the chain what is true.                    *)
LEMMA StepOfRow ==
    ASSUME TypeOK, SafeInv', UNCHANGED <<stage, reported, fees>>
    PROVE  S!Write
<1>1. Known' \in SUBSET S!Tellable
  <2>1. row'.closed => stage = "Closed"
    BY DEF SafeInv, RowInv
  <2>2. row'.resolved => reported
    BY DEF SafeInv, RowInv
  <2>3. reported => stage = "Closed"
    BY DEF SafeInv, RowInv
  <2> QED BY <2>1, <2>2, <2>3 DEF TypeOK, Known, Phase, S!Tellable
<1>2. row'.fee \in fees
  BY DEF SafeInv, RowInv
<1> QED BY <1>1, <1>2 DEF S!Write, Phase

(* A step that leaves the row and the payouts alone moves the stage.         *)
LEMMA StepOfStage ==
    ASSUME TypeOK, SafeInv, SafeInv', UNCHANGED <<row, reported, fees>>,
           \/ stage' = stage
           \/ stage = "Running" /\ stage' = "Paused"
           \/ stage = "Paused" /\ stage' = "Running"
           \/ stage # "Closed" /\ stage' = "Closed"
    PROVE  S!Next
<1>1. CASE stage' = stage
  BY <1>1, StepOfRow DEF S!Next
<1>2. CASE stage' # stage
  <2>1. ~reported
    BY <1>2 DEF SafeInv, RowInv
  <2>2. Known' = Known /\ row'.fee = row.fee
    BY DEF Known
  <2> QED BY <1>2, <2>1, <2>2 DEF TypeOK, Phase, S!Next, S!Pause, S!Resume, S!Close, S!Moves
<1> QED BY <1>1, <1>2

(* A step that reports, or not, and changes nothing else.                   *)
LEMMA StepOfReport ==
    ASSUME TypeOK, SafeInv, SafeInv', UNCHANGED <<row, stage, fees>>,
           reported' \in {reported, TRUE}
    PROVE  S!Next
<1>1. CASE reported' = reported
  BY <1>1, StepOfRow DEF S!Next
<1>2. CASE reported' # reported
  <2>1. ~reported /\ reported'
    BY <1>2 DEF TypeOK
  <2>2. stage = "Closed"
    BY <2>1 DEF SafeInv, RowInv
  <2>3. Known' = Known /\ row'.fee = row.fee
    BY DEF Known
  <2> QED BY <2>1, <2>2, <2>3 DEF Phase, S!Next, S!Report, S!Moves
<1> QED BY <1>1, <1>2

(* changeFee of a paused contract, or nothing of it.                        *)
LEMMA StepOfFee ==
    ASSUME TypeOK, SafeInv, SafeInv', NEW p \in Procs, Change(p)
    PROVE  S!Next
<1>1. CASE fees' = fees
  BY <1>1, StepOfRow DEF Change, S!Next
<1>2. CASE fees' # fees
  <2>1. stage = "Paused" /\ fees' = fees \union NewFees(p) /\ UNCHANGED <<row, stage, reported>>
    BY <1>2 DEF Change, Throws
  <2>2. NewFees(p) = {task[p].ent.fee}
    BY <1>2, <2>1 DEF NewFees
  <2>3. task[p].ent.fee \in Fees
    BY TaskFields DEF Row
  <2>4. ~reported
    BY <2>1 DEF SafeInv, RowInv
  <2>5. Known' = Known /\ row'.fee = row.fee /\ Phase = "Paused" /\ Phase' = Phase
    BY <2>1, <2>4 DEF Known, Phase
  <2> QED BY <2>1, <2>2, <2>3, <2>5 DEF S!Next, S!ChangeFee
<1> QED BY <1>1, <1>2

(* Every step of the life cycle is one of the stages.                       *)
LEMMA StagesStep ==
    ASSUME TypeOK, SafeInv, SafeInv', [Next]_vars
    PROVE  [S!Next]_(S!vars)
<1>1. ASSUME NEW p \in Procs, Close(p) \/ Pause(p) \/ Resume(p) PROVE S!Next
  <2>1. /\ UNCHANGED <<row, reported, fees>>
        /\ \/ stage' = stage
           \/ stage = "Running" /\ stage' = "Paused"
           \/ stage = "Paused" /\ stage' = "Running"
           \/ stage # "Closed" /\ stage' = "Closed"
    BY <1>1 DEF Close, Pause, Resume
  <2> QED BY <2>1, StepOfStage
<1>2. ASSUME NEW p \in Procs, Report(p) PROVE S!Next
  BY <1>2, StepOfReport DEF Report
<1>3. ASSUME NEW p \in Procs, Change(p) PROVE S!Next
  BY <1>3, StepOfFee
<1>4. ASSUME NEW p \in Procs, RedeemCalled(p) \/ SelectForSave(p) \/ UpdateOfSave(p) PROVE S!Next
  BY <1>4, StepOfRow DEF RedeemCalled, SelectForSave, UpdateOfSave, chainVars, S!Next
<1>5. ASSUME NEW p \in Procs, CronFinalizes(p) \/ Request(p) PROVE S!Next
  BY <1>5, StepOfRow DEF CronFinalizes, Request, ForceCloses, ManuallyResolves, UpdatesFee,
     UpdatesOther, ChangesLiquidity, Redeems, TradeLogged, ResolutionLogged, Start, chainVars,
     S!Next
<1>6. CASE Tick \/ UserTrades \/ SoftRemoves \/ Crash
  BY <1>6, StepOfRow DEF Tick, UserTrades, SoftRemoves, Crash, chainVars, S!Next
<1>7. CASE UNCHANGED vars
  BY <1>7, StepOfRow DEF vars, S!Next
<1> QED BY <1>1, <1>2, <1>3, <1>4, <1>5, <1>6, <1>7 DEF Next, Proceeds, Procs

(* What the stages promise, the concurrent code keeps.                      *)
THEOREM LifecycleImplementsStages == Spec => ImplementsStages
<1>1. TypeOK /\ SafeInv /\ SafeInv' /\ [Next]_vars => [S!Next]_(S!vars)
  BY StagesStep
<1> QED BY <1>1, StagesInit, TypeCorrect, SafeAlways, PTL DEF Spec, ImplementsStages, S!Spec

=============================================================================
