CONSTANTS
    Steps = {"sync", "advance"}
    Guards <- MCGuards
    Fires <- MCFires
    Domains <- MCDomains
    Rounds <- MCRounds
    Skips = {TRUE, FALSE}
    MaxNodes = 5
    Partners <- MCPartners
    Representative = FALSE
    NumTiles = 2
SPECIFICATION Spec
CHECK_DEADLOCK FALSE
INVARIANTS ExpansionInv EveryExecutionIsRepresented HistoriesEndWithTheirBreak
