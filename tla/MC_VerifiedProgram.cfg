CONSTANTS
    Models <- MCModels
    StateLimits = {10, 19, 1000}
    EarlyExits = {TRUE, FALSE}
    CursorOnlyKeys = {TRUE, FALSE}
SPECIFICATION VerifiedSpec
INVARIANTS
    TypeOK BarriersFollowCursors AccessInv
    SearchInv SafeMeansEveryInterleaving WitnessesAreReal NothingMissedWithoutEarlyExit
PROPERTIES EnabledPersists SafeProgramsComplete
