\* Races, a failed query, a crash or a repeated delivery; inserts of participations that
\* throw, as the entity has them, and inserts into a column with the documented default.
SPECIFICATION Spec
CONSTANTS
    Handlers = {h1, h2}
    Outcomes = {o1, o2}
    Traders = {u1, x1}
    Users = {u1}
    Sizes = {1}
    MaxTrades = 2
    MaxRedeems = 1
    MarkDefaults = {FALSE, TRUE}
    MaxFaults = 1
    MaxEvents = 2
INVARIANTS
    NothingInvented
    InvestedIsSumWithoutOverlap
    LoggedMeansRecorded
    JudgedTogether
PROPERTY
    MonetizedHasNoClaim
SYMMETRY Symmetry
CHECK_DEADLOCK FALSE
