CONSTANTS
    WINDOW_SIZE <- MCWindow
    Mids <- MCMids
SPECIFICATION MCSpec
CONSTRAINT CycleBound
INVARIANT CorrTypeOK
INVARIANT AlertMatchesPearson
