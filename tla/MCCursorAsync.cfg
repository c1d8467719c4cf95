CONSTANTS
    Kinds = {"message", "bookkeeping"}
    PageSize = 1
    MaxCatchup = 2
    Buffer = 2
    AsyncEvents = TRUE
    LookupMayFail = TRUE
    MaxPages = 2
    MaxMsg = 3
    MaxClients = 2
    MaxRestarts = 0
SPECIFICATION Spec
INVARIANTS PageWaitsForItsEvents
PROPERTIES CursorNeverMovesBack
