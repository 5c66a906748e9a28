SPECIFICATION LiveSpec
CONSTANTS
    Alerts = {"a", "alarm", "trade", "c", "x"}
    Key <- MCKey
    Unwanted = {"x"}
    Urgent = {"alarm"}
    Uncapped = {"trade"}
    Unheard = {"c"}
    Broken = {"trade"}
    Cooldown = 1
    Hour = 2
    MaxPerHour = 2
    Memory = 2
    DegradeAfter = 2
    MaxQueue = 2
    MaxRestarts = 1
INVARIANTS TypeOK NotRepeated HourIsKept
PROPERTIES ComesBack SaysSo
CHECK_DEADLOCK FALSE
