CONSTANTS
    Sets = 4
    Ways = 2
    LineBytes = 16
    Replacement = "lru"
    WriteAllocate = TRUE
    UncachedBase = 32768
    UncachedWeight = 0
    EvidenceCount = 2
    None = None
    Addrs <- MCAddrs
    Byte <- MCByte
    Txns <- MCTxns
    Sample <- MCSample
    EvidenceSample <- MCEvidenceSample
SPECIFICATION SuiteSpec
INVARIANT NoFalseAlarm StreamOracleAgrees DirectedPromisesKept ClosureLeavesConfiguredHoles
INVARIANT EvidenceLeavesOneBinToChance SuitePasses
CHECK_DEADLOCK FALSE
