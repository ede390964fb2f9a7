CONSTANTS
    Streams = {s1, s2}
    Chunks = {c1, c2}
    Sizes = {3, 5, 9, 30}
    Alignment = 2
    InitialCapacity = 8
    Ratio = 2
    Bits = 5
    NoChunk = NoChunk
    NoTx = NoTx
    MaxAllocations = 2
    MaxQueued = 3
SYMMETRY ChunkSymmetry
SPECIFICATION Spec
INVARIANTS TypeOK PlacementInv PendingWorkKeepsItsChunks FreshRegionsAreIdle
PROPERTY NewChunkOnlyWhenBusy
