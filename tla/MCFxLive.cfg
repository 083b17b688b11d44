CONSTANTS
    t1 = t1
    t2 = t2
    t3 = t3
    EURUSD = EURUSD
    Unknown = Unknown
    Main = Main
    Trade = {t1, t3}
    CurrencyPair = {EURUSD}
    Misspelt = {t3}
    PairOf <- MCPairOf
    MaxSends = 1
SPECIFICATION FairSpec
PROPERTIES
    DeletedGoes
    ShutdownCompletes
    RatesApplied
    Layers
