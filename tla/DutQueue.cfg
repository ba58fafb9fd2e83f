SPECIFICATION LiveRunnerSpec
CONSTANTS
    None = None
    Requests <- MCRequests
    MaxTxns = 4
CHECK_DEADLOCK FALSE
INVARIANTS
    QueuesAligned
    LagIsTimeouts
    OwnAnswer
PROPERTY
    EndsUnlessBehindTimeout
