CONSTANTS
    BookVenues <- MCBookVenues
    Feed <- MCFeed
    FundingVenues = {"Binance"}
    FundingFeed = {}
    SyntheticNames = {}
    SyntheticFeed = {}
    VaRCapacity = 2
    MAX_HISTORY = 2
    MIN_SAMPLES = 2
    Spreads = {}
    WINDOW_SIZE = 1
    Mids = {}
    Missing = Missing
    Garbage = Garbage
    Absent = Absent
    None = None
    Free = Free
SPECIFICATION Spec
INVARIANT LoopTypeOK
INVARIANT LongLegIsCheaper
