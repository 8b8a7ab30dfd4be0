\* No fault at all: one block is mined between the catch-up and the subscription.
SPECIFICATION Spec
CONSTANTS
    BlockRange = 1
    FirstHead = 1
    FirstOffset = 1
    WsReachable = TRUE
    MaxBlock = 3
    MaxLogs = 2
    MaxCrashes = 0
    MaxRestarts = 0
    MaxRpcFaults = 0
    MaxDbFaults = 0
    MaxDrops = 0
INVARIANTS
    NothingLost
CHECK_DEADLOCK FALSE
