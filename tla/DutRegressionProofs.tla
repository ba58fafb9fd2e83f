------------------------ MODULE DutRegressionProofs ------------------------
(***************************************************************************)
(* Theorems about DutRegression: the queues of the scoreboard and of the   *)
(* adapter stay aligned, exactly one expectation stays behind per timeout, *)
(* and without a timeout every answer is compared with its own prediction. *)
(***************************************************************************)
EXTENDS DutRegression, TLAPS

Expectations == [txn_id : Nat, response : {x.response : x \in Requests}]

InFlight == IF phase = "idle" THEN 0 ELSE 1

DutTypes ==
    /\ phase \in {"idle", "driving", "sampling"}
    /\ outcome \in {"none", "pass", "mismatch", "timeout", "reference"}
    /\ txn_id \in Nat
    /\ timeouts \in Nat
    /\ expected \in Seq(Expectations)
    /\ pending_txns \in Seq(Nat)

\* Every id queued is one the stream has made.
IdsBounded ==
    /\ txn_id <= MaxTxns
    /\ \A i \in DOMAIN expected : expected[i].txn_id \in 1 .. txn_id
    /\ \A i \in DOMAIN pending_txns : pending_txns[i] \in 1 .. txn_id
    /\ phase # "idle" => current.txn_id = txn_id

Aligned ==
    Ids(expected) = IF phase = "driving" THEN Append(pending_txns, current.txn_id)
                    ELSE pending_txns

CurrentIsNewest ==
    phase # "idle" => expected[Len(expected)].txn_id = current.txn_id

Lag ==
    /\ Len(expected) = timeouts + InFlight
    /\ timeouts + InFlight <= txn_id

\* Until the first timeout the device works for the current transaction only.
InStep ==
    timeouts = 0 =>
        /\ phase # "sampling" => serving = None /\ held = None
        /\ phase = "sampling" =>
              /\ serving # None => serving.txn_id = current.txn_id /\ held = None
              /\ held # None => held.txn_id = current.txn_id

DutInv ==
    DutTypes /\ IdsBounded /\ Aligned /\ CurrentIsNewest /\ Lag /\ InStep
-----------------------------------------------------------------------------
(***************************************************************************)
(* The ids of a queue that grows at its end and shrinks at its head.       *)
(***************************************************************************)
LEMMA IdsAppend ==
    ASSUME NEW s \in Seq(Expectations), NEW e \in Expectations
    PROVE  Ids(Append(s, e)) = Append(Ids(s), e.txn_id)
BY DEF Ids, Expectations

LEMMA IdsSeq ==
    ASSUME NEW s \in Seq(Expectations)
    PROVE  Ids(s) \in Seq(Nat) /\ Len(Ids(s)) = Len(s)
<1>1. /\ Len(s) \in Nat
      /\ DOMAIN s = 1 .. Len(s)
      /\ \A i \in 1 .. Len(s) : s[i] \in Expectations
    OBVIOUS
<1>2. Ids(s) \in [1 .. Len(s) -> Nat]
    BY <1>1 DEF Ids, Expectations
<1> QED
    BY <1>1, <1>2

LEMMA IdsTail ==
    ASSUME NEW s \in Seq(Expectations), s # <<>>
    PROVE  Ids(Tail(s)) = Tail(Ids(s)) /\ Head(Ids(s)) = Head(s).txn_id
BY DEF Ids, Expectations
-----------------------------------------------------------------------------
THEOREM DutInvInit == DutInit => DutInv
<1> SUFFICES ASSUME DutInit PROVE DutInv
    OBVIOUS
<1>1. Ids(<<>>) = <<>>
    BY DEF Ids
<1> QED
    BY <1>1, MaxTxnsAssumption
    DEF DutInit, DutInv, DutTypes, IdsBounded, Aligned, CurrentIsNewest, Lag, InFlight, InStep

LEMMA PushKeeps ==
    ASSUME DutInv, NEW x \in Requests, PushRequest(x)
    PROVE  DutInv'
<1> DEFINE e == [txn_id |-> txn_id + 1, response |-> x.response]
<1> USE DEF DutInv
<1>1. /\ phase = "idle" /\ phase' = "driving" /\ txn_id < MaxTxns
      /\ txn_id' = txn_id + 1 /\ current'.txn_id = txn_id + 1
      /\ expected' = Append(expected, e)
      /\ UNCHANGED <<pending_txns, outcome, timeouts, serving, held>>
    BY DEF PushRequest, StartNext, deviceVars
<1>2. e \in Expectations
    BY DEF Expectations, DutTypes
<1>3. DutTypes'
    BY <1>1, <1>2 DEF DutTypes
<1>4. IdsBounded'
    <2>1. \A i \in DOMAIN expected' : expected'[i].txn_id \in 1 .. txn_id'
        BY <1>1, <1>2 DEF DutTypes, IdsBounded
    <2> QED
        BY <1>1, <2>1, MaxTxnsAssumption DEF DutTypes, IdsBounded
<1>5. Aligned' /\ CurrentIsNewest'
    BY <1>1, <1>2, IdsAppend DEF Aligned, CurrentIsNewest, DutTypes
<1>6. Lag'
    BY <1>1, <1>2 DEF Lag, InFlight, DutTypes
<1>7. InStep'
    BY <1>1 DEF InStep
<1> QED
    BY <1>3, <1>4, <1>5, <1>6, <1>7

LEMMA RaiseKeeps ==
    ASSUME DutInv, NEW x \in Requests, ReferenceRaises(x)
    PROVE  DutInv'
<1> USE DEF DutInv, ReferenceRaises, StartNext, deviceVars
<1>1. DutTypes' /\ IdsBounded'
    BY MaxTxnsAssumption DEF DutTypes, IdsBounded
<1>2. Aligned' /\ CurrentIsNewest' /\ Lag' /\ InStep'
    BY DEF Aligned, CurrentIsNewest, Lag, InFlight, InStep, DutTypes
<1> QED
    BY <1>1, <1>2

LEMMA DriveKeeps ==
    ASSUME DutInv, DriveCpuRequest
    PROVE  DutInv'
<1> USE DEF DutInv, DriveCpuRequest
<1>1. current.txn_id \in Nat
    BY DEF DutTypes, IdsBounded
<1>2. DutTypes'
    BY <1>1 DEF DutTypes
<1>3. IdsBounded'
    <2>1. \A i \in DOMAIN pending_txns' : pending_txns'[i] \in 1 .. txn_id
        BY <1>1 DEF DutTypes, IdsBounded, Lag, InFlight
    <2> QED
        BY <2>1 DEF IdsBounded
<1>4. Aligned' /\ CurrentIsNewest' /\ Lag' /\ InStep'
    BY DEF Aligned, CurrentIsNewest, Lag, InFlight, InStep, DutTypes
<1> QED
    BY <1>2, <1>3, <1>4

\* The oldest pending transaction is the one the scoreboard expects.
LEMMA SampledIsExpected ==
    ASSUME DutInv, phase = "sampling", NEW hit \in BOOLEAN
    PROVE  /\ expected # <<>> /\ pending_txns # <<>>
           /\ Sampled(hit).txn_id = Head(expected).txn_id
           /\ Verdict(Sampled(hit)) \in {"pass", "mismatch"}
<1> USE DEF DutInv
<1>1. expected # <<>>
    BY DEF Lag, InFlight, DutTypes
<1>2. Ids(expected) = pending_txns /\ Len(pending_txns) = Len(expected)
    BY IdsSeq DEF Aligned, DutTypes
<1>3. pending_txns # <<>>
    BY <1>1, <1>2 DEF DutTypes
<1>4. Head(pending_txns) = Head(expected).txn_id
    BY <1>1, <1>2, IdsTail DEF DutTypes
<1>5. Sampled(hit).txn_id = Head(pending_txns)
    BY DEF Sampled
<1> QED
    BY <1>1, <1>3, <1>4, <1>5 DEF Verdict

LEMMA SampleKeeps ==
    ASSUME DutInv, NEW hit \in BOOLEAN, SampleCpuResponse(hit)
    PROVE  DutInv'
<1> USE DEF DutInv
<1>1. /\ phase = "sampling" /\ phase' = "idle" /\ held # None /\ held' = None
      /\ outcome' = Verdict(Sampled(hit))
      /\ expected' = IF expected = <<>> THEN <<>> ELSE Tail(expected)
      /\ pending_txns' = Tail(pending_txns)
      /\ UNCHANGED <<current, txn_id, timeouts, serving>>
    BY DEF SampleCpuResponse
<1>2. /\ expected # <<>> /\ pending_txns # <<>>
      /\ outcome' \in {"pass", "mismatch"}
    BY <1>1, SampledIsExpected
<1>3. expected' = Tail(expected)
    BY <1>1, <1>2
<1>4. DutTypes'
    BY <1>1, <1>2, <1>3 DEF DutTypes
<1>5. IdsBounded'
    <2>1. \A i \in DOMAIN expected' : expected'[i].txn_id \in 1 .. txn_id
        BY <1>2, <1>3 DEF DutTypes, IdsBounded
    <2>2. \A i \in DOMAIN pending_txns' : pending_txns'[i] \in 1 .. txn_id
        BY <1>1, <1>2 DEF DutTypes, IdsBounded
    <2> QED
        BY <1>1, <2>1, <2>2 DEF IdsBounded
<1>6. Aligned' /\ CurrentIsNewest'
    BY <1>1, <1>2, <1>3, IdsTail DEF Aligned, CurrentIsNewest, DutTypes
<1>7. Lag'
    BY <1>1, <1>2, <1>3 DEF Lag, InFlight, DutTypes
<1>8. InStep'
    BY <1>1 DEF InStep
<1> QED
    BY <1>4, <1>5, <1>6, <1>7, <1>8

LEMMA TimeoutKeeps ==
    ASSUME DutInv, ResponseTimeout
    PROVE  DutInv'
<1> USE DEF DutInv, ResponseTimeout, deviceVars
<1>1. DutTypes' /\ IdsBounded'
    BY DEF DutTypes, IdsBounded
<1>2. Aligned' /\ CurrentIsNewest' /\ Lag' /\ InStep'
    BY DEF Aligned, CurrentIsNewest, Lag, InFlight, InStep, DutTypes
<1> QED
    BY <1>1, <1>2

LEMMA EnvironmentKeeps ==
    ASSUME DutInv, AdapterReset \/ Device \/ UNCHANGED dutVars
    PROVE  DutInv'
<1> USE DEF DutInv
<1>1. UNCHANGED runnerVars
    BY DEF AdapterReset, Device, AnswerRequest, DropRequest, dutVars
<1>2. DutTypes' /\ IdsBounded' /\ Aligned' /\ CurrentIsNewest' /\ Lag'
    BY <1>1 DEF runnerVars, DutTypes, IdsBounded, Aligned, CurrentIsNewest, Lag, InFlight
<1>3. InStep'
    <2>1. CASE AdapterReset
        BY <2>1, <1>1 DEF AdapterReset, InStep, runnerVars
    <2>2. CASE \E data \in {0, 1} : AnswerRequest(data)
        BY <2>2, <1>1 DEF AnswerRequest, InStep, runnerVars
    <2>3. CASE DropRequest
        BY <2>3, <1>1 DEF DropRequest, InStep, runnerVars
    <2>4. CASE UNCHANGED dutVars
        BY <2>4 DEF dutVars, runnerVars, deviceVars, InStep
    <2> QED
        BY <2>1, <2>2, <2>3, <2>4 DEF Device
<1> QED
    BY <1>2, <1>3

(***************************************************************************)
(* The invariant holds through requests, refusals, timeouts and resets,    *)
(* for any stream and whatever the device does.                            *)
(***************************************************************************)
THEOREM DutInvariant == DutSpec => []DutInv
<1>1. DutInv /\ [DutNext]_dutVars => DutInv'
    <2> SUFFICES ASSUME DutInv, [DutNext]_dutVars PROVE DutInv'
        OBVIOUS
    <2>1. CASE \E x \in Requests : PushRequest(x) \/ ReferenceRaises(x)
        BY <2>1, PushKeeps, RaiseKeeps
    <2>2. CASE Runner
        BY <2>2, DriveKeeps, SampleKeeps, TimeoutKeeps DEF Runner
    <2>3. CASE AdapterReset \/ Device \/ UNCHANGED dutVars
        BY <2>3, EnvironmentKeeps
    <2> QED
        BY <2>1, <2>2, <2>3 DEF DutNext
<1> QED
    BY DutInvInit, <1>1, PTL DEF DutSpec

(***************************************************************************)
(* Scoreboard.expected and the adapter's _pending_txns list the same       *)
(* transactions, so compare_response never sees a response out of order.   *)
(***************************************************************************)
THEOREM QueuesStayAligned == DutSpec => []QueuesAligned
<1>1. DutInv => QueuesAligned
    <2> SUFFICES ASSUME DutInv PROVE QueuesAligned
        OBVIOUS
    <2>1. current.txn_id \in Nat \/ phase # "driving"
        BY DEF DutInv, DutTypes, IdsBounded
    <2>2. pending_txns \o <<>> = pending_txns
        BY DEF DutInv, DutTypes
    <2>3. phase = "driving" =>
            pending_txns \o <<current.txn_id>> = Append(pending_txns, current.txn_id)
        BY <2>1 DEF DutInv, DutTypes
    <2> QED
        BY <2>2, <2>3 DEF DutInv, DutTypes, Aligned, QueuesAligned
<1> QED
    BY DutInvariant, <1>1, PTL

(***************************************************************************)
(* A timeout leaves one expectation behind for good, and nothing else does. *)
(***************************************************************************)
THEOREM OneLeftPerTimeout == DutSpec => []LagIsTimeouts
<1>1. DutInv => LagIsTimeouts
    BY DEF DutInv, DutTypes, Lag, InFlight, LagIsTimeouts
<1> QED
    BY DutInvariant, <1>1, PTL

(***************************************************************************)
(* Until a response times out, each is compared with its own prediction.   *)
(***************************************************************************)
THEOREM AnswersAreOwn == DutSpec => []OwnAnswer
<1>1. DutInv => OwnAnswer
    <2> SUFFICES ASSUME DutInv, phase = "sampling", timeouts = 0
                 PROVE  /\ Ids(expected) = <<current.txn_id>>
                        /\ held # None => held.txn_id = current.txn_id
        BY DEF OwnAnswer
    <2> USE DEF DutInv
    <2>1. Len(expected) = 1 /\ expected \in Seq(Expectations)
        BY DEF Lag, InFlight, DutTypes
    <2>2. expected[1].txn_id = current.txn_id
        BY <2>1 DEF CurrentIsNewest
    <2>3. Ids(expected) = <<current.txn_id>>
        BY <2>1, <2>2 DEF Ids
    <2> QED
        BY <2>3 DEF InStep
<1> QED
    BY DutInvariant, <1>1, PTL

(***************************************************************************)
(* The runner, the adapter and the scoreboard keep their types.            *)
(***************************************************************************)
THEOREM DutTypesCorrect == DutSpec => []DutTypeOK
<1>1. DutInv => DutTypeOK
    <2> SUFFICES ASSUME DutInv PROVE DutTypeOK
        OBVIOUS
    <2>1. txn_id \in 0 .. MaxTxns /\ timeouts \in 0 .. MaxTxns
        BY MaxTxnsAssumption DEF DutInv, DutTypes, IdsBounded, Lag, InFlight
    <2> QED
        BY <2>1 DEF DutInv, DutTypes, IdsBounded, DutTypeOK
<1> QED
    BY DutInvariant, <1>1, PTL
=============================================================================
