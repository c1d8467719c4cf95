CONSTANTS
    ReregisterAfter = 2
    MaxLogins = 2
    MaxReconnects = 1
    MaxFaults = 2
SPECIFICATION FairTasksSpec
INVARIANTS TasksTypeOK
PROPERTIES StaysStopped HeardAgain
CHECK_DEADLOCK FALSE
