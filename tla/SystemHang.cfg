SPECIFICATION TickingSpec
CONSTANTS
    None = None
    Sets = 1
    Ways = 2
    LineBytes = 3
    WordBytes = 2
    Tags = {1, 2, 3}
    WrittenTags = {2}
    Byte = {0, 1}
    CpuRequests <- MCRequests
    Memories <- MCMemories
    Latency = 3
    ResponseTimeout = 4
    ResetCycles = 2
    WritesHitOnly = TRUE
PROPERTY EveryHandshakeEnds
