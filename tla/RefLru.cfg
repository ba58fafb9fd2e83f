CONSTANTS
    Sets = 1
    Ways = 2
    LineBytes = 2
    Replacement = "lru"
    WriteAllocate = TRUE
    Lines = 3
    WrittenLines = 2
    UncachedLines = 0
    None = None
    MaxTicks = 4
    Addrs <- MCAddrs
    Byte <- MCByte
    Txns <- MCTxns
SPECIFICATION LockstepSpec
INVARIANT TypeOK ListsArePermutations NoDuplicateTag CleanMatchesMemory ModelsAgree
PROPERTY DirtyEvictionIsReported ImplementsStore
