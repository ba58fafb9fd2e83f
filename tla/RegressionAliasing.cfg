CONSTANTS
    Sets = 1
    Ways = 2
    LineBytes = 2
    Replacement = "lru"
    WriteAllocate = TRUE
    Lines = 3
    WrittenLines = 2
    UncachedLines = 0
    None = None
    Addrs <- MCAddrs
    Byte <- MCByte
    Txns <- AliasingTxns
SPECIFICATION RegressionSpec
CHECK_DEADLOCK FALSE
INVARIANT NoFalseAlarm
