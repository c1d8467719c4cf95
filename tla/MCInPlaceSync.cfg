CONSTANTS
    User = {u1, u2}
    Self = u1
    LookupMayFail = TRUE
    MaxTime = 4
    MaxRestarts = 1
SPECIFICATION FairSpec
INVARIANTS TypeOK NeverResurrected
PROPERTIES ChangesBridgedUnlessOverlooked ReactionsBridgedUnlessOverlooked
