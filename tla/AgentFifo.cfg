SPECIFICATION AgentSpec
CONSTANTS
    None = None
    Lines = {1}
    Size = 2
    Byte = {0, 1, 2}
    Requests <- MCRequests
    BackpressurePattern <- MCPattern
    DrainCycles = {1, 3}
    MaxRequests = 3
    LastCycle = 4
CHECK_DEADLOCK FALSE
INVARIANTS
    DeliveredInOrder
    DeliveredWhenDue
    ReadsSeeEarlierWrites
PROPERTIES
    AcceptedIsAnswered
