CONSTANTS
    Other = {other}
    Self = self
    Buffer = 1
    MaxTime = 3
    MaxRestarts = 1
SPECIFICATION FairSpec
INVARIANTS TypeOK UnreadRemembered
PROPERTIES RemoteReadsShown OwnReadsShown EchoDiesOut
