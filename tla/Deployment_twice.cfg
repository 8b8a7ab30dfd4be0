\* Two runs of the cron job that overlap, one reservation, no fault.
SPECIFICATION Spec
CONSTANTS
    Cron = {c1, c2}
    Requests = {r1}
    Questions = {q1}
    MaxBase = 1
    MaxTime = 1
    MaxUpdates = 0
    MaxFaults = 0
INVARIANTS
    QuestionAskedOnce
CHECK_DEADLOCK FALSE
