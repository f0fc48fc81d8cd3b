SPECIFICATION Spec
CONSTANTS
    Asset = {a1, a2}
    Start = {0}
    NoTrade = NoTrade
    WindowLen = 2
    MinElapsed = 0
    ExpiryCutoff = 1
    SettlementGrace = 0
    HourLen = 2
    DayLen = 3
    KellyCosts = {4}
    Odds = {2}
    TicksPerDollar = 10
    Live = FALSE
    Telegram = FALSE
    Overrun = {}
    MaxTime = 3
    MaxTrades = 3
    MaxCrashes = 0
    MaxLost = 0
    MaxDailyDrawdown = 3
    MaxOpenExposure = 5
    MaxPosition = 3
    MaxTradesPerHour = 1
    MinOrder = 2
    MinShares = 4
SYMMETRY Symmetry
INVARIANT HourlyCap
