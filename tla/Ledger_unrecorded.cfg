\* The code as it stands, no fault and no overlap: one trade is delivered.
SPECIFICATION Spec
CONSTANTS
    Handlers = {h1}
    Outcomes = {o1, o2}
    Traders = {u1}
    Users = {u1}
    Sizes = {1}
    MaxTrades = 1
    MaxRedeems = 1
    MarkDefaults = {FALSE}
    MaxFaults = 0
    MaxEvents = 2
INVARIANT
    EachTradeRecorded
CHECK_DEADLOCK FALSE
