--------------------------- MODULE MCOooScoreboard ---------------------------
\* Small instances of the out-of-order scoreboard's bench.
EXTENDS OooScoreboardBench, TLC

\* Nothing orders transaction ids.
IdSymmetry == Permutations(TxnIds)

Predicted(data, hit, dirty) ==
    [data |-> data, hit |-> hit, evicted_dirty |-> dirty,
     writeback_addr |-> IF dirty THEN 0 ELSE None,
     writeback_data |-> IF dirty THEN 1 ELSE None, error |-> None]

\* A read hit, a read and a write that evict a dirty line.
MCRequests ==
    {[op |-> "read",  response |-> Predicted(1, TRUE, FALSE)],
     [op |-> "read",  response |-> Predicted(0, FALSE, TRUE)],
     [op |-> "write", response |-> Predicted(0, FALSE, TRUE)]}

AllFaults == {"none", "flip_read_bit", "flip_tag_match",
              "corrupt_writeback_addr", "corrupt_writeback_byte"}
=============================================================================
