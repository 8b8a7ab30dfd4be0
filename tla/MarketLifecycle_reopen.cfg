\* No fault at all: the handler of a trade saves a copy loaded before the closing.
SPECIFICATION Spec
CONSTANTS
    Cron = {c1}
    Server = {s1, s2}
    Fees = {f1}
    FirstFee = f1
    MaxTime = 1
    MaxFaults = 0
INVARIANT
    ReportedIsClosedInRow
CHECK_DEADLOCK FALSE
