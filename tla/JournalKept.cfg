SPECIFICATION LiveSpec
CONSTANTS
    Messages = {"d", "again", "o", "n", "x"}
    Id <- MCId
    None = "none"
    Parent <- MCParent
    Tagged = {"d"}
    Unreadable = {"x"}
    MaxPending = 3
    DegradeAfter = 2
INVARIANTS TypeOK OutcomeFound
PROPERTIES KeepsPromise NothingSticks Recovers
CHECK_DEADLOCK FALSE
