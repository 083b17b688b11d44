CONSTANTS
    t1 = t1
    t2 = t2
    t3 = t3
    EURUSD = EURUSD
    Unknown = Unknown
    Main = Main
    Trade = {t1, t2, t3}
    CurrencyPair = {EURUSD}
    Misspelt = {}
    PairOf <- MCPairOf
    MaxSends = 0
SPECIFICATION Spec
SYMMETRY Symmetry
INVARIANTS
    TypeOK
    OneFeedPerSource
    TradeKept
    FeedsEnd
