SPECIFICATION Spec
CONSTANTS
    Ask = {50, 60}
    NoAsk = NoAsk
    NoPrice = NoPrice
    PriceToBeat = 4
    StartTs = 0
    EndTs = 3
    MinElapsed = 1
    ExpiryCutoff = 1
    MaxTickAge = 1
    MaxFeedLag = 1
    MinDistance = 2
    Probability <- Probabilities
    MinEdge = 10
    MinEntryPrice = 50
    MaxEntryPrice = 60
    TickPrice = {1, 5, 9}
    Lag = {0, 2}
    NoTick = NoTick
    Idle = Idle
    NoSignal = NoSignal
    MaxNow = 3
    MaxWire = 1
INVARIANTS TypeOK QuotesCaughtUp SameQuotes SameDecisions
