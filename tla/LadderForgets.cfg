SPECIFICATION Spec
CONSTANTS
    Candidates = {a}
    Strategies = {a}
    Instrument = eurusd
    Trades <- MCTrades
    Small = 1
    Full = 2
    Ceiling = 2
    MinEpisodes = 1
    LiveEpisodes = 2
    Verdicts = {"failing", "long"}
    MaxEdits = 2
    MaxClosed = 2
INVARIANT RetiredIsNotRunning
CHECK_DEADLOCK FALSE
