SPECIFICATION MCSpec
CONSTANTS
    Candidates = {a, b}
    Strategies = {a}
    Instrument = eurusd
    Trades <- MCTrades
    Small = 1
    Full = 2
    Ceiling = 2
    MinEpisodes = 1
    LiveEpisodes = 2
    Verdicts = {"long", "broken"}
    MaxEdits = 2
    MaxClosed = 2
INVARIANTS TypeOK AllocatedUnderCeiling CapWasGranted
PROPERTIES PromotedOnItsOwnTrades ReadyClimbs
CHECK_DEADLOCK FALSE
