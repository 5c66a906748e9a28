SPECIFICATION LiveSpec
CONSTANTS
    Kinds = {"poll", "ticks", "push", "unnumbered", "bars"}
    Pairs = {"a", "b"}
    Unpriced = {}
    Start = 3
    Offset = 0
    PerSecond = 2
    BarLength = 1
    Backlog = 2
    MaxTime = 6
    MaxTicks = 3
INVARIANTS TypeOK OnceInOrder NothingPassedOver
PROPERTY Delivered
