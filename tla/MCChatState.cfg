CONSTANTS
    Parts = {"marks", "pins", "saved"}
    Messages = {1, 2}
    Bridged = {1}
    MaxChanges = 2
    MaxFaults = 1
    MaxRestarts = 1
SPECIFICATION FairChatSpec
INVARIANTS ChatTypeOK
PROPERTIES MarksShown PinsAgree SavedPublished
CHECK_DEADLOCK FALSE
