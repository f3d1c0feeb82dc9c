CONSTANTS
    Requests = {r1, r2}
    Prompts <- MCPrompts
    Token <- MCToken
    NumGpuBlocks = 4
    BlockSize = 2
    MaxModelLen = 4
SYMMETRY Symmetry
SPECIFICATION KVSpec
INVARIANTS
    KVTypeOK
    TablesWellFormed
    RefCountExact
    FreeQueueExact
    HashMapExact
    TableHashes
    UncachedPrivate
    EvictionInv
    CachedPrefixClosed
    CommonPrefixIsShared
