\* Two processes that compile, one of which also lists the cache: two keys of different
\* sizes, a batch of one row, and an eviction whose first DELETE removes one row.
CONSTANTS
    p1 = p1
    p2 = p2
    Compilers = {p1, p2}
    Lister = p2
    Keys = {1, 2}
    Size <- SizesOfTwo
    SizeLimit = 2
    RowLimit = 1
    RowFactor = 2
    BatchSize = 1
    MaxCounts <- CountArguments
    MaxClock = 1
    MaxFiles = 2

SPECIFICATION Spec
INVARIANT ListingInv
PROPERTIES
    CommitsAreConfined
    EvictsOldestFirst
    EvictsWhatItMust
    EveryRequestEnds
