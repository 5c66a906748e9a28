SPECIFICATION Spec
CONSTANTS
    Kinds = {"bars"}
    Pairs = {"a", "b", "z"}
    Unpriced = {"z"}
    Start = 3
    Offset = 0
    PerSecond = 2
    BarLength = 1
    Backlog = 2
    MaxTime = 5
    MaxTicks = 3
INVARIANT BarsAreWhole
