----------------------------- MODULE Reminders -----------------------------
(***************************************************************************)
(* The job of every ten minutes that announces the markets that close in   *)
(* an hour: one market, its deadline, and the checks of the job, which run *)
(* at the end of a tick and may come late.                                 *)
(*                                                                         *)
(* Time is counted in fractions of the job's interval. The operator named  *)
(* ...Fault is a plausible mistake in the one it precedes; no              *)
(* specification uses it.                                                  *)
(***************************************************************************)
EXTENDS Integers

CONSTANTS
    Interval,       \* marketsCheckoutIntervalInMinutes, in units of time
    Ahead,          \* hoursRemainingToMarketClosureReminder, in the same units
    MaxClock,       \* bound: time
    MaxDelay        \* bound: units by which a check may come late

VARIABLES
    clock,
    due,        \* should_resolve_at of the market
    closed,     \* is closed_at set?
    ran,        \* the last tick of the job whose check was made
    delayed,    \* was a check ever late, or left out?
    told        \* how often the market was announced as closing soon

vars == <<clock, due, closed, ran, delayed, told>>

TypeOK ==
    /\ clock \in 0 .. MaxClock /\ due \in Nat /\ closed \in BOOLEAN
    /\ ran \in -Interval .. MaxClock /\ delayed \in BOOLEAN /\ told \in Nat

Lesser(a, b) == IF a < b THEN a ELSE b

WindowFault == clock + Ahead .. clock + 2 * Ahead

(* Both ends belong to the window of shouldResolveAt; it is as wide as the  *)
(* interval, lest the market be announced at every check.                   *)
Window == clock + Ahead .. clock + Ahead + Lesser(Interval, Ahead)

(* The check comes at the end of a tick of the job, on time or late; a tick *)
(* whose check has not come when the next begins is not made up for.        *)
Check ==
    /\ LET tick == (clock \div Interval) * Interval IN
       /\ tick > ran /\ clock - tick <= MaxDelay
       /\ ran' = tick
       /\ delayed' = (delayed \/ clock # tick)
    /\ told' = IF ~closed /\ due \in Window THEN told + 1 ELSE told
    /\ UNCHANGED <<clock, due, closed>>

(* A tick that is over before its check came counts as late.                *)
Tick ==
    /\ clock < MaxClock
    /\ clock' = clock + 1
    /\ delayed' = (delayed \/ ((clock' % Interval) = 0 /\ ran < clock' - Interval))
    /\ UNCHANGED <<due, closed, ran, told>>

(* Closed ahead of time by force.                                           *)
CloseEarly ==
    /\ ~closed /\ clock < due
    /\ closed' = TRUE
    /\ UNCHANGED <<clock, due, ran, delayed, told>>

Init ==
    /\ clock = 0 /\ due \in Ahead .. Ahead + MaxClock /\ closed = FALSE
    /\ ran = -Interval /\ delayed = FALSE /\ told = 0

Next == Check \/ Tick \/ CloseEarly

Spec == Init /\ [][Next]_vars

(* A market that stays open is announced exactly once before it closes, if  *)
(* the checks were on time and it is not due on the border of two windows.  *)
AnnouncedOnce ==
    ((due - Ahead) % Interval) # 0 /\ ~delayed /\ ~closed =>
        told = IF ((due - Ahead) \div Interval) * Interval <= ran THEN 1 ELSE 0
=============================================================================
