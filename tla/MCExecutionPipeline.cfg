CONSTANTS
    BinanceBooks <- MCBinanceBooks
    BybitBooks <- MCBybitBooks
    VaRCapacity = 2
SPECIFICATION Spec
CONSTRAINT LedgerBound
INVARIANT LedgerTypeOK
INVARIANT LedgerAndVaRAgree
 
INVARIANT NoStopLossExit
