--------------------------- MODULE DutRegression ---------------------------
(***************************************************************************)
(* One transaction at a time through DUTRegressionRunner.execute           *)
(* (dut_regression.py): the in-order Scoreboard (scoreboard.py) predicts   *)
(* and queues a response, ToffeeCacheAdapter (toffee_adapter.py) hands the *)
(* request to the device and waits for the answer, and the scoreboard      *)
(* compares.  The waits are where the coroutine gives way to the clock:    *)
(* the phase says which one it is in.  The caller counts an exception as   *)
(* a failure and goes on with the next transaction, as                     *)
(* run_large_scale_regression.py does, or resets the adapter in between.   *)
(*                                                                         *)
(* The device is the environment: it takes a request when none is in       *)
(* progress, answers it with or without a fault, or never does, and holds  *)
(* an answer valid until it is taken.  Cycles are not counted: a wait may  *)
(* last any time, the response wait also up to its timeout.                *)
(***************************************************************************)
EXTENDS ResponseCheck, Naturals, Sequences

CONSTANTS
    Requests,     \* [op, response]: transactions with the responses predicted
    MaxTxns       \* bound on the transactions of the stream

ASSUME DutRequestsAssumption ==
    \A x \in Requests : x.op \in {"read", "write"} /\ x.response.data \in {0, 1}

ASSUME MaxTxnsAssumption == MaxTxns \in Nat

VARIABLES
    expected,      \* Scoreboard.expected, with the ids
    pending_txns,  \* ToffeeCacheAdapter._pending_txns: its keys, oldest first
    phase,         \* "idle", "driving" or "sampling"
    current,       \* the transaction in execute(), or the last one
    outcome,       \* how the last execute() ended
    txn_id,        \* how many transactions the stream has made so far
    timeouts,      \* how many of them ended in a TimeoutError
    serving,       \* the device's request in progress, or None
    held           \* the answer the device holds valid, or None

runnerVars == <<expected, pending_txns, phase, current, outcome, txn_id, timeouts>>
deviceVars == <<serving, held>>
dutVars == <<runnerVars, deviceVars>>

Ids(responses) == [i \in DOMAIN responses |-> responses[i].txn_id]
-----------------------------------------------------------------------------
(***************************************************************************)
(* Scoreboard.push_request: the reference predicts, or raises and leaves   *)
(* the queue as it was.                                                    *)
(***************************************************************************)
StartNext(x) ==
    /\ phase = "idle"
    /\ txn_id < MaxTxns
    /\ txn_id' = txn_id + 1
    /\ current' = [txn_id |-> txn_id + 1, op |-> x.op, response |-> x.response]

PushRequest(x) ==
    /\ StartNext(x)
    /\ expected' = Append(expected, [txn_id |-> txn_id + 1, response |-> x.response])
    /\ phase' = "driving"
    /\ UNCHANGED <<pending_txns, outcome, timeouts, deviceVars>>

ReferenceRaises(x) ==
    /\ StartNext(x)
    /\ outcome' = "reference"
    /\ UNCHANGED <<expected, pending_txns, phase, timeouts, deviceVars>>
-----------------------------------------------------------------------------
\* drive_cpu_request: wait for ready, without a bound; then remember the id.
DriveCpuRequest ==
    /\ phase = "driving"
    /\ serving = None
    /\ serving' = current
    /\ pending_txns' = Append(pending_txns, current.txn_id)
    /\ phase' = "sampling"
    /\ UNCHANGED <<expected, current, outcome, txn_id, timeouts, held>>

\* sample_cpu_response: the answer is the oldest pending transaction's, and a
\* short wait is a hit.  CacheResponse leaves every other field at its default.
Sampled(hit) ==
    [txn_id |-> Head(pending_txns), data |-> held.data, hit |-> hit,
     evicted_dirty |-> FALSE, writeback_addr |-> None, writeback_data |-> None,
     error |-> None, observed_fields |-> None]

\* Scoreboard.compare_response: the head is popped before anything is checked.
Verdict(actual) ==
    CASE expected = <<>> -> "unexpected"
      [] expected # <<>> /\ Head(expected).txn_id # actual.txn_id -> "order"
      [] expected # <<>> /\ Head(expected).txn_id = actual.txn_id ->
            IF Diverges(current.op, Head(expected).response, actual)
            THEN "mismatch" ELSE "pass"

\* Faulty variant: the answer is not acknowledged with ready.
SampleWithoutReady(hit) ==
    /\ phase = "sampling"
    /\ held # None
    /\ outcome' = Verdict(Sampled(hit))
    /\ expected' = IF expected = <<>> THEN <<>> ELSE Tail(expected)
    /\ pending_txns' = Tail(pending_txns)
    /\ phase' = "idle"
    /\ UNCHANGED <<current, txn_id, timeouts, deviceVars>>

\* Faulty variant: a refused response leaves its expectation queued.
SampleThenCheckThenPop(hit) ==
    /\ phase = "sampling"
    /\ held # None
    /\ outcome' = Verdict(Sampled(hit))
    /\ expected' = IF outcome' = "pass" THEN Tail(expected) ELSE expected
    /\ pending_txns' = Tail(pending_txns)
    /\ held' = None
    /\ phase' = "idle"
    /\ UNCHANGED <<current, txn_id, timeouts, serving>>

SampleCpuResponse(hit) ==
    /\ phase = "sampling"
    /\ held # None
    /\ outcome' = Verdict(Sampled(hit))
    /\ expected' = IF expected = <<>> THEN <<>> ELSE Tail(expected)
    /\ pending_txns' = Tail(pending_txns)
    /\ held' = None
    /\ phase' = "idle"
    /\ UNCHANGED <<current, txn_id, timeouts, serving>>

\* Faulty variant: the adapter forgets the transaction that timed out.
TimeoutForgetting ==
    /\ phase = "sampling"
    /\ held = None
    /\ outcome' = "timeout"
    /\ timeouts' = timeouts + 1
    /\ pending_txns' = Tail(pending_txns)
    /\ phase' = "idle"
    /\ UNCHANGED <<expected, current, txn_id, deviceVars>>

\* TimeoutError: the adapter and the scoreboard keep what they had queued.
ResponseTimeout ==
    /\ phase = "sampling"
    /\ held = None
    /\ outcome' = "timeout"
    /\ timeouts' = timeouts + 1
    /\ phase' = "idle"
    /\ UNCHANGED <<expected, pending_txns, current, txn_id, deviceVars>>

\* ToffeeCacheAdapter.reset, between two transactions: the device forgets its
\* request and its answer, the adapter and the scoreboard forget nothing.
AdapterReset ==
    /\ phase = "idle"
    /\ serving' = None
    /\ held' = None
    /\ UNCHANGED runnerVars
-----------------------------------------------------------------------------
(***************************************************************************)
(* The device.                                                             *)
(***************************************************************************)
AnswerRequest(data) ==
    /\ serving # None
    /\ held = None
    /\ held' = [txn_id |-> serving.txn_id, data |-> data]
    /\ serving' = None
    /\ UNCHANGED runnerVars

DropRequest ==
    /\ serving # None
    /\ serving' = None
    /\ UNCHANGED <<runnerVars, held>>

DutInit ==
    /\ expected = <<>> /\ pending_txns = <<>>
    /\ phase = "idle" /\ outcome = "none" /\ current = None
    /\ txn_id = 0 /\ timeouts = 0
    /\ serving = None /\ held = None

Runner ==
    \/ DriveCpuRequest
    \/ \E hit \in BOOLEAN : SampleCpuResponse(hit)
    \/ ResponseTimeout

Device == (\E data \in {0, 1} : AnswerRequest(data)) \/ DropRequest

DutNext ==
    \/ \E x \in Requests : PushRequest(x) \/ ReferenceRaises(x)
    \/ Runner
    \/ AdapterReset
    \/ Device

DutSpec == DutInit /\ [][DutNext]_dutVars

\* The event loop runs the coroutine: a wait whose condition holds, or whose
\* time is up, ends.  Nothing is assumed of the device.
RunnerFairness ==
    /\ WF_dutVars(DriveCpuRequest)
    /\ WF_dutVars(\E hit \in BOOLEAN : SampleCpuResponse(hit) \/ ResponseTimeout)

LiveRunnerSpec == DutSpec /\ RunnerFairness
-----------------------------------------------------------------------------
(***************************************************************************)
(* Types of the runner, the adapter and the scoreboard.                    *)
(***************************************************************************)
DutTypeOK ==
    /\ phase \in {"idle", "driving", "sampling"}
    /\ outcome \in {"none", "pass", "mismatch", "order", "unexpected",
                    "timeout", "reference"}
    /\ txn_id \in 0 .. MaxTxns /\ timeouts \in 0 .. MaxTxns
    /\ \A i \in DOMAIN expected : expected[i].txn_id \in 1 .. txn_id
    /\ \A i \in DOMAIN pending_txns : pending_txns[i] \in 1 .. txn_id
    /\ phase # "idle" => current.txn_id = txn_id

(***************************************************************************)
(* The scoreboard's queue and the adapter's table list the same            *)
(* transactions in the same order, through timeouts, refusals and resets.  *)
(* So a response always carries the id that the scoreboard expects next,   *)
(* whichever request it answers: the order check of compare_response       *)
(* cannot fire behind this adapter.                                        *)
(***************************************************************************)
QueuesAligned ==
    /\ Ids(expected) = pending_txns \o (IF phase = "driving" THEN <<current.txn_id>>
                                        ELSE <<>>)
    /\ outcome \notin {"order", "unexpected"}

(***************************************************************************)
(* Between transactions the scoreboard still expects exactly one response  *)
(* for every timeout there ever was: a refusal leaves nothing behind, a    *)
(* timeout leaves one expectation forever, and a reset takes none away.    *)
(***************************************************************************)
LagIsTimeouts == phase = "idle" => Len(expected) = timeouts

(***************************************************************************)
(* As long as no response timed out, the answer that is sampled and the    *)
(* expectation it is compared with are those of the current transaction.   *)
(***************************************************************************)
OwnAnswer ==
    phase = "sampling" /\ timeouts = 0 =>
        /\ Ids(expected) = <<current.txn_id>>
        /\ held # None => held.txn_id = current.txn_id

(***************************************************************************)
(* A device that is ready whenever it has no request may otherwise do what *)
(* it likes, or nothing: execute() ends with a verdict or an exception, or *)
(* it waits for ready, which has no bound, behind an earlier request that  *)
(* the device never ends, and the response to that one has timed out.      *)
(* Without a timeout no transaction can hang the run.                      *)
(***************************************************************************)
StuckBehindTimeout ==
    /\ phase = "driving" /\ timeouts > 0
    /\ serving # None /\ serving.txn_id < current.txn_id

EndsUnlessBehindTimeout == phase # "idle" ~> phase = "idle" \/ StuckBehindTimeout

=============================================================================
