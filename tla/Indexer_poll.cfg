\* The node refuses WebSocket connections: every retry is an HTTP catch-up, which delivers at least once.
SPECIFICATION FairSpec
CONSTANTS
    BlockRange = 1
    FirstHead = 1
    FirstOffset = 1
    WsReachable = FALSE
    MaxBlock = 3
    MaxLogs = 1
    MaxCrashes = 1
    MaxRestarts = 1
    MaxRpcFaults = 1
    MaxDbFaults = 0
    MaxDrops = 0
INVARIANTS
    TypeOK
    NothingSkipped
    OnceWithoutFaults
PROPERTY
    ImplementsDelivery
