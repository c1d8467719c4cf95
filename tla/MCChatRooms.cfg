CONSTANTS
    MaxChanges = 1
    MaxMessages = 1
    MaxFaults = 1
    MaxRestarts = 1
SPECIFICATION FairSpec
INVARIANTS TypeOK
PROPERTIES NeverRenamedBack NamesSettle ChannelInSpace
CHECK_DEADLOCK FALSE
