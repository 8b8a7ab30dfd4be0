\* Safety: an overlapping cron run, two requests or event handlers, one fault.
SPECIFICATION Spec
CONSTANTS
    Cron = {c1}
    Server = {s1, s2}
    Fees = {f1, f2}
    FirstFee = f1
    MaxTime = 1
    MaxFaults = 1
INVARIANTS
    ClosedOnlyAfterChain
    PausedHasOwner
PROPERTIES
    ClosersNeverUndo
    ImplementsStages
SYMMETRY Symmetry
CHECK_DEADLOCK FALSE
