-------------------------- MODULE MCDutRegression --------------------------
\* Small instances of the DUT regression.
EXTENDS DutRegression

Predicted(data, hit, dirty) ==
    [data |-> data, hit |-> hit, evicted_dirty |-> dirty,
     writeback_addr |-> IF dirty THEN 0 ELSE None,
     writeback_data |-> IF dirty THEN 1 ELSE None, error |-> None]

\* A read that hits, a read that evicts a dirty line, and a write miss.
MCRequests ==
    {[op |-> "read",  response |-> Predicted(1, TRUE, FALSE)],
     [op |-> "read",  response |-> Predicted(0, FALSE, TRUE)],
     [op |-> "write", response |-> Predicted(0, FALSE, FALSE)]}
=============================================================================
