CONSTANTS
    BinanceBooks <- MCBinanceBooks
    BybitBooks <- MCBybitBooks
    VaRCapacity = 2
SPECIFICATION Spec
INVARIANT RecordedTradesProfitable
