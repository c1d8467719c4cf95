CONSTANTS
    BaseDelay = 1
    IdleCap = 1
    FailureCap = 1
    Odd = 1
    Twos = 0
    OddBits = 1
    Thread = {t1, t2}
    Listed = {t1}
    BackstopCap = 1
    ActiveCap = 1
    MaxSleep = 2
    ActivityInterval = 2
    ActivityMax = 2
    DiscoveryInterval = 2
    DiscoveryGap = 1
    GoneRecheck = 2
    Pauses = {1}
    WakeQueueSize = 1
    MaxFailures = 1
    MaxElapsed = 1
SPECIFICATION FairSpec
INVARIANTS TypeOK NoPollWhilePaused NeverSleepsPastDue
PROPERTY UnreadPolled
