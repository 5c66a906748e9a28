SPECIFICATION Spec
CONSTANTS
    Markets = {m}
    Limits = {l}
    Tasks = {t1, t2}
    Prices = {1, 2}
    First = 1
    Movable = {"E", "SL"}
    Faults = {"unreadable", "lag", "drop", "refused", "empty", "raised", "lie", "placed", "noticket", "unpriced", "nodeal"}
SYMMETRY Symmetry
CONSTRAINT Scenario
INVARIANTS TypeOK NoFabricatedFill CanceledEntryIsGone OwedHasATask FilledOnce
PROPERTIES NoNakedClaim
CHECK_DEADLOCK FALSE
