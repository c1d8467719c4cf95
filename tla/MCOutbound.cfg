CONSTANTS
    Texts = {t}
    Files = {f}
    Chunks = 2
    MaxRetries = 1
    MaxRepeats = 1
    MaxRestarts = 1
SPECIFICATION FairSpec
INVARIANTS TypeOK OwnMessagesOnce FileBeforeMessage
PROPERTY EverySendSettled
CHECK_DEADLOCK FALSE
