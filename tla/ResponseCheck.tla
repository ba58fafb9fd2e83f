--------------------------- MODULE ResponseCheck ---------------------------
(***************************************************************************)
(* What both scoreboards compare of an expected and an actual response     *)
(* (scoreboard.py, ooo_scoreboard.py): the data of a read, and every other *)
(* field that the actual response says a signal of the device showed.      *)
(***************************************************************************)
CONSTANT None

CheckedFields ==
    {"hit", "evicted_dirty", "writeback_addr", "writeback_data", "error"}

\* CacheResponse.observes: without observed_fields, everything is visible.
Observed(actual) ==
    IF actual.observed_fields = None THEN CheckedFields
    ELSE CheckedFields \cap actual.observed_fields

\* Faulty variant: the data of a read is not among what is compared.
DivergesButForData(op, expected, actual) ==
    \E f \in Observed(actual) : expected[f] # actual[f]

Diverges(op, expected, actual) ==
    \/ op = "read" /\ expected.data # actual.data
    \/ \E f \in Observed(actual) : expected[f] # actual[f]
=============================================================================
