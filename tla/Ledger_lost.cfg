\* No fault at all: two trades are handled at once, as in a catch-up.
SPECIFICATION Spec
CONSTANTS
    Handlers = {h1, h2}
    Outcomes = {o1, o2}
    Traders = {u1}
    Users = {u1}
    Sizes = {1}
    MaxTrades = 2
    MaxRedeems = 1
    MarkDefaults = {FALSE}
    MaxFaults = 0
    MaxEvents = 2
INVARIANT
    InvestedIsSum
CHECK_DEADLOCK FALSE
