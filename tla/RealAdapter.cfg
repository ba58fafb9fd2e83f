CONSTANTS
    Beats = 2
    Words <- MCWords
    MmioWords <- MCMmioWords
    MaxStall = 1
    None = None
    Lanes = {0, 1}
    Byte = {0, 1}
    Txns <- MCTxns
    MaxTxns = 4
SPECIFICATION AdapterSpec
INVARIANT EveryRequestNoticed ReportedAsHappened ReadsSeeWrites
PROPERTY EveryRequestAnswered ImplementsPort
