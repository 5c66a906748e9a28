SPECIFICATION BasketLive
CONSTANTS
    Resting = {r}
    Edges = {e}
    Signals = {s1, s2}
    None = None
    Stops = {1, 2}
    First = 1
    Refusals = {"entry", "cancel", "stop", "modify", "close"}
    Profits <- MCProfits
    LossLimit = 1
    TakeLimit = 0
    GiveBack = 50
CONSTRAINT Scenario
INVARIANTS TypeOK OneClose
PROPERTIES WaitedFillIsItsOwn DueIsClosed RefinesDesk AskedIsClosed
CHECK_DEADLOCK FALSE
