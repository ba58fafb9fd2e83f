--------------------------- MODULE CacheRegression ---------------------------
(***************************************************************************)
(* The model regression loop of cache_vip/regression.py: ReferenceCache is *)
(* driven with a stream, and ArchitecturalMemoryOracle (oracle.py), which  *)
(* knows nothing of lines or replacement, judges every response.  The loop *)
(* stops at the first mismatch or exception; the stream may end after any  *)
(* transaction.  Coverage and the repro window are left out: nothing reads *)
(* them before the loop is over.                                           *)
(***************************************************************************)
EXTENDS ReferenceCacheProperties

VARIABLES
    oracle,   \* ArchitecturalMemoryOracle._bytes, 0 where nothing was written
    status    \* "RUNNING", then the "status" of the result: "PASS" or "FAIL"

regressionVars == <<lines, lru, fifo, memory, last_writeback, response, oracle, status>>

Expected(t) == [i \in Bytes(t) |-> oracle[t.addr + i]]

\* Faulty variant: the oracle applies a write without its mask.
ApplyWriteUnmasked(t) ==
    /\ t.op = "write"
    /\ oracle' = [a \in Addrs |-> IF a - t.addr \in Bytes(t) THEN t.data[a - t.addr]
                                  ELSE oracle[a]]
    /\ UNCHANGED status

\* check_and_apply: compare a read, apply a write under its mask.
CheckRead(t) ==
    /\ t.op = "read"
    /\ status' = IF response'.data = Expected(t) THEN status ELSE "FAIL"
    /\ UNCHANGED oracle

ApplyWrite(t) ==
    /\ t.op = "write"
    /\ oracle' = [a \in Addrs |-> IF a - t.addr \in t.mask THEN t.data[a - t.addr]
                                  ELSE oracle[a]]
    /\ UNCHANGED status

\* Any other exception ends the run, too.
AccessRaised ==
    /\ response'.raised
    /\ status' = "FAIL"
    /\ UNCHANGED oracle

RunTransaction(t) ==
    /\ status = "RUNNING"
    /\ Access(t)
    /\ \/ AccessRaised
       \/ ~response'.raised /\ (CheckRead(t) \/ ApplyWrite(t))

EndOfStream ==
    /\ status = "RUNNING"
    /\ status' = "PASS"
    /\ UNCHANGED <<vars, oracle>>

RegressionInit ==
    /\ Init
    /\ oracle = [a \in Addrs |-> 0]
    /\ status = "RUNNING"

RegressionNext == (\E t \in Txns : RunTransaction(t)) \/ EndOfStream

RegressionSpec == RegressionInit /\ [][RegressionNext]_regressionVars
-----------------------------------------------------------------------------
\* The reference model's types, and the loop's.
RegressionTypeOK ==
    /\ TypeOK
    /\ oracle \in [Addrs -> Byte]
    /\ status \in {"RUNNING", "PASS", "FAIL"}

(***************************************************************************)
(* The regression drives a reference model with no fault in it, so every   *)
(* FAIL is a false alarm: the oracle and the cache must agree on every     *)
(* read, whatever was evicted, refilled or bypassed before it.             *)
(***************************************************************************)
NoFalseAlarm == status # "FAIL"

(***************************************************************************)
(* The oracle holds, for every address and not only for those the stream   *)
(* happened to read, the byte the cache would return.                      *)
(***************************************************************************)
OracleAgrees == status # "FAIL" => oracle = Current

\* Streams whose cached accesses stay in one line.
NoCrossLine == \A t \in Txns : t.uncached \/ ~CrossLine(t)
=============================================================================
