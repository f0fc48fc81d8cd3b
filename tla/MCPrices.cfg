SPECIFICATION ParitySpec
CONSTANTS
    Window = {0, 2}
    WindowLen = 2
    Grace = 1
    Milli = 2
    RingMax = 3
    RingCut = 2
    Lookback = 1
    Lookahead = 1
    Unknown = Unknown
    Unarmed = Unarmed
    Official = Official
    NoTick = NoTick
    MaxNow = 6
INVARIANTS TypeOK OpeningNotMissed OpeningIsEarliest SamePrices
PROPERTIES PriceNeverLost SettlementTickStays
