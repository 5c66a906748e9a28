SPECIFICATION LiveSpec
CONSTANTS
    Markets = {m}
    Limits = {}
    Tasks = {t1}
    Prices = {1, 2}
    First = 1
    Movable = {"SL", "TP"}
    Faults = {"unreadable", "drop", "refused", "empty", "raised", "noticket", "unpriced", "nodeal"}
INVARIANTS AcceptedLegIsHeld CanceledLegIsGone
PROPERTIES StopNeverStripped EveryCommandAnswered NoLimbo
CHECK_DEADLOCK FALSE
