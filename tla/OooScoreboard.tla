--------------------------- MODULE OooScoreboard ---------------------------
(***************************************************************************)
(* OooScoreboard of cache_vip/ooo_scoreboard.py: expectations are kept by  *)
(* transaction id and matched in whatever order responses and writeback    *)
(* events arrive.  Each method is an operation that its caller triggers;   *)
(* the caller sees a refusal as a ScoreboardMismatch, counted here in      *)
(* raised because no attribute of the scoreboard does.                     *)
(*                                                                         *)
(* A dictionary is a function to None outside its keys; a list that is     *)
(* only appended to and measured is its length.                            *)
(***************************************************************************)
EXTENDS ResponseCheck, Naturals, FiniteSets

CONSTANTS
    TxnIds,      \* the transaction ids in use
    Requests     \* [op, response]: transactions with the responses predicted

ASSUME TxnIdsAssumption == IsFiniteSet(TxnIds)

VARIABLES
    pending,                \* id -> the request and its expected response
    matched, mismatched, orphan,
    timed_out,
    expected_writebacks,    \* id -> WritebackEvent
    matched_writebacks, mismatched_writebacks, orphan_writebacks,
    raised                  \* ScoreboardMismatch raised, by method

responseVars == <<pending, matched, mismatched, orphan, timed_out>>
writebackVars ==
    <<expected_writebacks, matched_writebacks, mismatched_writebacks, orphan_writebacks>>
oooVars == <<responseVars, writebackVars, raised>>

Pending == {id \in TxnIds : pending[id] # None}
ExpectedWritebacks == {id \in TxnIds : expected_writebacks[id] # None}

WritebackEvent(id, r) ==
    [txn_id |-> id, addr |-> r.writeback_addr, data |-> r.writeback_data]

\* The parts of a response that predict a writeback come together.
ASSUME RequestsAssumption ==
    /\ None \notin Requests
    /\ \A x \in Requests :
          /\ x.op \in {"read", "write"}
          /\ CheckedFields \cup {"data"} \subseteq DOMAIN x.response
          /\ x.response.evicted_dirty = (x.response.writeback_addr # None)
          /\ x.response.evicted_dirty = (x.response.writeback_data # None)
          /\ \A id \in TxnIds : WritebackEvent(id, x.response) # None

RegistersWriteback(r) ==
    r.evicted_dirty /\ r.writeback_addr # None /\ r.writeback_data # None

Raise(method) == raised' = [raised EXCEPT ![method] = @ + 1]
-----------------------------------------------------------------------------
RejectPush(id) ==
    /\ id \in Pending
    /\ Raise("push_expected")
    /\ UNCHANGED <<responseVars, writebackVars>>

\* Faulty variant: one expected writeback is kept, that of the last eviction.
AcceptPushSingleSlot(id, x) ==
    /\ id \notin Pending
    /\ pending' = [pending EXCEPT ![id] = x]
    /\ expected_writebacks' =
          IF RegistersWriteback(x.response)
          THEN [i \in TxnIds |-> IF i = id THEN WritebackEvent(id, x.response) ELSE None]
          ELSE expected_writebacks
    /\ UNCHANGED <<matched, mismatched, orphan, timed_out, raised>>
    /\ UNCHANGED <<matched_writebacks, mismatched_writebacks, orphan_writebacks>>

AcceptPush(id, x) ==
    /\ id \notin Pending
    /\ pending' = [pending EXCEPT ![id] = x]
    /\ expected_writebacks' =
          IF RegistersWriteback(x.response)
          THEN [expected_writebacks EXCEPT ![id] = WritebackEvent(id, x.response)]
          ELSE expected_writebacks
    /\ UNCHANGED <<matched, mismatched, orphan, timed_out, raised>>
    /\ UNCHANGED <<matched_writebacks, mismatched_writebacks, orphan_writebacks>>
-----------------------------------------------------------------------------
\* compare_actual: an unknown or already answered id.
OrphanResponse(actual) ==
    /\ actual.txn_id \notin Pending
    /\ orphan' = orphan + 1
    /\ mismatched' = mismatched + 1
    /\ Raise("compare_actual")
    /\ UNCHANGED <<pending, matched, timed_out, writebackVars>>

\* The entry is popped first; a divergence raises past the counters.
AnswerPending(actual) ==
    /\ actual.txn_id \in Pending
    /\ pending' = [pending EXCEPT ![actual.txn_id] = None]
    /\ LET p == pending[actual.txn_id] IN
       \/ /\ Diverges(p.op, p.response, actual)
          /\ Raise("compare_actual")
          /\ UNCHANGED matched
       \/ /\ ~Diverges(p.op, p.response, actual)
          /\ matched' = matched + 1
          /\ UNCHANGED raised
    /\ UNCHANGED <<mismatched, orphan, timed_out, writebackVars>>

\* Faulty variant: the entry stays, so that a second answer matches again.
CompareActualKeeping(actual) ==
    \/ OrphanResponse(actual)
    \/ /\ actual.txn_id \in Pending
       /\ matched' = matched + 1
       /\ UNCHANGED <<pending, mismatched, orphan, timed_out, writebackVars, raised>>

CompareActual(actual) == OrphanResponse(actual) \/ AnswerPending(actual)
-----------------------------------------------------------------------------
OrphanWriteback(actual) ==
    /\ actual.txn_id \notin ExpectedWritebacks
    /\ orphan_writebacks' = orphan_writebacks + 1
    /\ mismatched_writebacks' = mismatched_writebacks + 1
    /\ Raise("compare_writeback")
    /\ UNCHANGED <<responseVars, expected_writebacks, matched_writebacks>>

MatchWriteback(actual) ==
    LET expected == expected_writebacks[actual.txn_id]
    IN  /\ actual.txn_id \in ExpectedWritebacks
        /\ expected_writebacks' = [expected_writebacks EXCEPT ![actual.txn_id] = None]
        /\ \/ /\ expected # actual
              /\ mismatched_writebacks' = mismatched_writebacks + 1
              /\ Raise("compare_writeback")
              /\ UNCHANGED matched_writebacks
           \/ /\ expected = actual
              /\ matched_writebacks' = matched_writebacks + 1
              /\ UNCHANGED <<mismatched_writebacks, raised>>
        /\ UNCHANGED <<responseVars, orphan_writebacks>>

CompareWriteback(actual) == OrphanWriteback(actual) \/ MatchWriteback(actual)
-----------------------------------------------------------------------------
\* The expected writebacks of the drained transactions stay.
DrainPending ==
    /\ timed_out' = timed_out + Cardinality(Pending)
    /\ pending' = [id \in TxnIds |-> None]
    /\ UNCHANGED <<matched, mismatched, orphan, writebackVars, raised>>

OooInit ==
    /\ pending = [id \in TxnIds |-> None]
    /\ expected_writebacks = [id \in TxnIds |-> None]
    /\ matched = 0 /\ mismatched = 0 /\ orphan = 0 /\ timed_out = 0
    /\ matched_writebacks = 0 /\ mismatched_writebacks = 0 /\ orphan_writebacks = 0
    /\ raised = [m \in {"push_expected", "compare_actual", "compare_writeback"} |-> 0]
=============================================================================
