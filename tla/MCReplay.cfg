SPECIFICATION Spec
CONSTANTS
    Ask = {50}
    NoAsk = NoAsk
    NoPrice = NoPrice
    StartTs = 0
    EndTs = 2
    MinElapsed = 1
    ExpiryCutoff = 0
    MaxTickAge = 0
    MaxFeedLag = 1
    MinDistance = 2
    Probability <- Probabilities
    MinEdge = 10
    MinEntryPrice = 50
    MaxEntryPrice = 60
    TickPrice = {4, 9}
    Lag = {0}
    Quoted = {"Up"}
    Shares = {1, 2}
    NoTick = NoTick
    Unknown = Unknown
    Idle = Idle
    NoPosition = NoPosition
    Listed = Listed
    MaxNow = 2
    MaxTrades = 2
    MaxMissed = 1
INVARIANTS TypeOK SettlementsMatch
PROPERTY SignalsMatch
