SPECIFICATION FairSpec
CONSTANTS
    Loop = {"poll"}
    Handler = {}
    Refusal = {"expired", "moved"}
    Permanent = {"expired"}
    TripAfter = 3
    MaxChanges = 4
INVARIANT TypeOK
PROPERTIES AnnouncedOnce StateRecovers
CHECK_DEADLOCK FALSE
