CONSTANTS
    Sets = 2
    Ways = 2
    LineBytes = 2
    Replacement = "lru"
    WriteAllocate = TRUE
    Lines = 5
    WrittenLines = 5
    UncachedLines = 0
    None = None
    MaxTicks = 1
    Addrs <- MCAddrs
    Byte <- MCByte
    Txns <- MCCampaignTxns
    BaseTxn <- MCBaseTxn
    OffsetTxn <- MCOffsetTxn
SPECIFICATION CampaignSpec
INVARIANT DetectionMeansDifference
CHECK_DEADLOCK FALSE
