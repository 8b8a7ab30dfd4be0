\* Liveness: one cron run and one request or handler at a time, two faults.
SPECIFICATION FairSpec
CONSTANTS
    Cron = {c1}
    Server = {s1}
    Fees = {f1, f2}
    FirstFee = f1
    MaxTime = 2
    MaxFaults = 2
PROPERTY
    EventuallyClosed
CHECK_DEADLOCK FALSE
