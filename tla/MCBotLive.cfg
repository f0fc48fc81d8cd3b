SPECIFICATION Spec
CONSTANTS
    Asset = {a1, a2}
    Start = {0, 2}
    NoTrade = NoTrade
    WindowLen = 2
    MinElapsed = 0
    ExpiryCutoff = 1
    SettlementGrace = 0
    HourLen = 2
    DayLen = 3
    KellyCosts = {4}
    Odds = {1, 2}
    TicksPerDollar = 10
    Live = TRUE
    Telegram = TRUE
    Overrun = {0, 2}
    MaxTime = 3
    MaxTrades = 2
    MaxCrashes = 0
    MaxLost = 0
    MaxDailyDrawdown = 3
    MaxOpenExposure = 5
    MaxPosition = 3
    MaxTradesPerHour = 1
    MinOrder = 2
    MinShares = 4
SYMMETRY Symmetry
INVARIANTS LossBound SnapshotCurrent OrderReplacesNothing
PROPERTY ExposureCap
