SPECIFICATION LiveSpec
CONSTANTS
    Entries = {"f", "t"}
    Sources = {"forexfactory", "tradingview"}
    SourceOf <- MCSourceOf
    Derived = {"f"}
    Times = {1, 3}
    Lead = 1
    Back = 1
    Ahead = 2
    Behind = 0
    Forward = 1
    Early = 1
    Answering = "tradingview"
    Slow = 2
    MaxTime = 3
    MaxRestarts = 1
INVARIANTS TypeOK OnceAnnouncedFirst FiguresAreOut
PROPERTIES TellsFigures
CHECK_DEADLOCK FALSE
