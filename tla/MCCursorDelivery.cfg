CONSTANTS
    Kinds = {"message", "amend"}
    PageSize = 1
    MaxCatchup = 2
    Buffer = 2
    AsyncEvents = FALSE
    LookupMayFail = FALSE
    MaxPages = 4
    MaxMsg = 4
    MaxClients = 1
    MaxRestarts = 1
SPECIFICATION FairSpec
INVARIANTS TypeOK CursorBehindHandling
PROPERTIES DeliverySpec EveryMessageSettled
