CONSTANTS
    Models <- MCTwoAccumulators
    StateLimits = {1000}
    EarlyExits = {TRUE}
    CursorOnlyKeys = {TRUE}
SPECIFICATION VerifiedSpec
INVARIANT DefaultKeyIsExact
