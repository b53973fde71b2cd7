CONSTANTS
    MAX_HISTORY <- MCMaxHistory
    MIN_SAMPLES <- MCMinSamples
    Spreads <- MCSpreads
SPECIFICATION StatArbSpec
INVARIANT StatArbTypeOK
PROPERTY HalvedWindowRefinement
