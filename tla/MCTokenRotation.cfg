CONSTANTS
    MaxLogins = 3
    MaxTokens = 4
    MaxRestarts = 1
SPECIFICATION Spec
INVARIANTS TypeOK SavedTokenAccepted NewLoginStays
CHECK_DEADLOCK FALSE
