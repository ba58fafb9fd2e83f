SPECIFICATION SystemSpec
CONSTANTS
    None = None
    Sets = 1
    Ways = 2
    LineBytes = 3
    WordBytes = 2
    Tags = {1, 2, 3}
    WrittenTags = {}
    Byte = {0, 1}
    CpuRequests <- MCRequests
    Memories <- MCMemories
    Latency = 4
    ResponseTimeout = 8
    ResetCycles = 2
    WritesHitOnly = TRUE
INVARIANTS
    CleanLineIsMemory
