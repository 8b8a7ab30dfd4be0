\* The node accepts WebSocket connections and may drop them; restarts may overlap.
SPECIFICATION Spec
CONSTANTS
    BlockRange = 1
    FirstHead = 1
    FirstOffset = 0
    WsReachable = TRUE
    MaxBlock = 2
    MaxLogs = 1
    MaxCrashes = 1
    MaxRestarts = 2
    MaxRpcFaults = 0
    MaxDbFaults = 1
    MaxDrops = 1
INVARIANTS
    CatchUpCovers
    SingleRetryChain
CHECK_DEADLOCK FALSE
