\* The cron job and requests that overlap it, two reservations, one fault.
SPECIFICATION FairSpec
CONSTANTS
    Cron = {c1}
    Requests = {r1}
    Questions = {q1, q2}
    MaxBase = 2
    MaxTime = 1
    MaxUpdates = 1
    MaxFaults = 1
INVARIANTS
    NoOrphanContract
    StartedOnceWithoutOverlap
    
PROPERTIES
    NoReservationLost
    EventuallyStarted
CHECK_DEADLOCK FALSE
