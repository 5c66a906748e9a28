SPECIFICATION Spec
CONSTANTS
    Resting = {r}
    Edges = {}
    Signals = {s1, s2}
    None = None
    Stops = {1}
    First = 1
    Refusals = {}
INVARIANTS FilledAsIntended
CHECK_DEADLOCK FALSE
