CONSTANTS
    BookVenues <- MCBookVenues
    Feed <- MCFeed
    FundingVenues <- MCFundingVenues
    FundingFeed <- MCFundingFeed
    SyntheticNames <- MCSyntheticNames
    SyntheticFeed = {s1, s2}
    Absent = Absent
    None = None
    Free = Free

SPECIFICATION CacheSpec
INVARIANT CacheTypeOK
PROPERTY RefinesMarketStateCache
