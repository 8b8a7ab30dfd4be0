\* Two overlapping requests, two users, two accounts; one service in each behaviour.
SPECIFICATION Spec
CONSTANTS
    Requests = {r1, r2}
    Users = {u1, u2}
    Nobody = nobody
    TextIds = {"1", "2"}
    Addresses = {a1, a2}
    MaxCalls = 2
    MaxPatches = 2
INVARIANTS
    BuyWithinPayment
    SalePaysUnlessDrift
    CallsLandOnce
    FaucetOncePerDelay
    ReceivedIsLogged
    FinalOnceClosed
    AnnouncedOnce
    OwnerLogsIn
    RightHandler
    UniqueUnlessRaced
    PairsFollowBits
    ReportsAgree
PROPERTIES
    FailsForAReason
    ReplacedOnlyByForce
    ChargeAloneSucceeds
    OnlyWanted
    PatchChangesItsField
    IconsFollowUploads
SYMMETRY Symmetry
CHECK_DEADLOCK FALSE
