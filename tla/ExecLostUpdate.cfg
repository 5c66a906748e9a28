SPECIFICATION Spec
CONSTANTS
    Markets = {m}
    Limits = {}
    Tasks = {t1, t2}
    Prices = {1, 2}
    First = 1
    Movable = {"SL"}
    Faults = {}
INVARIANTS AcceptedLegIsHeld
CHECK_DEADLOCK FALSE
