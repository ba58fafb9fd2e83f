SPECIFICATION BenchSpec
CONSTANTS
    None = None
    TxnIds = {t1, t2}
    Requests <- MCRequests
    ObservedFields = None
    Faults <- AllFaults
    MaxPushes = 2
    MaxCopies = 2
    ReuseIds = FALSE
CHECK_DEADLOCK FALSE
SYMMETRY IdSymmetry
INVARIANTS
    EachExpectationSettledOnce
    EachWritebackSettledOnce
    PassMeansFaithful
    OrderIsNoFault
