CONSTANTS
    Kinds = {"message"}
    PageSize = 1
    MaxCatchup = 3
    Buffer = 2
    AsyncEvents = FALSE
    LookupMayFail = FALSE
    MaxPages = 3
    MaxMsg = 4
    MaxClients = 1
    MaxRestarts = 0
SPECIFICATION Spec
INVARIANT CatchUpComplete
