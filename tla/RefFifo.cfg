CONSTANTS
    Sets = 1
    Ways = 2
    LineBytes = 2
    Replacement = "fifo"
    WriteAllocate = FALSE
    Lines = 3
    WrittenLines = 1
    UncachedLines = 1
    None = None
    Addrs <- MCAddrs
    Byte <- MCByte
    Txns <- PlainTxns
SPECIFICATION DetectionSpec
INVARIANT FaithfulNeverRefused FaultStaysInItsWrite
PROPERTY ImplementsStore
CHECK_DEADLOCK FALSE
