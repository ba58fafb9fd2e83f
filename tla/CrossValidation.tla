--------------------------- MODULE CrossValidation ---------------------------
(***************************************************************************)
(* CrossValidationScoreboard of cache_vip/cross_validation.py.  For each   *)
(* kind of injection, fresh copies of both models see the base transaction *)
(* and fresh copies again the injected one; then each injected response is *)
(* shown to a scoreboard - as the transaction - with the response of the   *)
(* other model to the base transaction as the actual one.  Nothing is ever *)
(* pushed into that scoreboard.                                            *)
(***************************************************************************)
EXTENDS AlternativeModel, Sequences

CONSTANT
    BaseTxn,           \* the transaction of every test
    OffsetTxn          \* the same, four lines on (ADDRESS_OFFSET)

InjectionType == {"BIT_FLIP", "MASK_DROP", "ADDRESS_OFFSET", "HIT_MISS_FLIP",
                  "DIRTY_EVICTION_FLIP", "WRITEBACK_DATA_CORRUPT"}

VARIABLES
    step,              \* where _run_injection_test stands
    injection,         \* its injection_type
    base,              \* expected_a and expected_b
    injected,          \* injected_response and injected_response_b
    expected,          \* Scoreboard.expected of the test's scoreboard
    results            \* self.results

campaignVars == <<lockstepVars, step, injection, base, injected, expected, results>>
-----------------------------------------------------------------------------
\* _inject_fault: two kinds change the data, and three hand the transaction back
\* as it is.
InjectFault(txn, kind) ==
    CASE kind \in {"BIT_FLIP", "WRITEBACK_DATA_CORRUPT"} ->
            {[txn EXCEPT !.data = d] : d \in [Bytes(txn) -> Byte] \ {txn.data}}
      [] kind = "ADDRESS_OFFSET" -> {OffsetTxn}
      [] OTHER -> {txn}

FreshModels ==
    /\ lines' = [s \in SetIds |-> [w \in WayIds |->
                   [valid |-> FALSE, dirty |-> FALSE, tag |-> 0, data |-> ZeroLine]]]
    /\ lru' = InitialOrder
    /\ fifo' = InitialOrder
    /\ memory' = [a \in Addrs |-> 0]
    /\ last_writeback' = None
    /\ response' = Response(NoData, FALSE)
    /\ FreshB

AccessBase(kind) ==
    /\ step = "BASE"
    /\ \A r \in results : r.injection_type # kind
    /\ injection' = kind
    /\ BothAccess(BaseTxn)
    /\ base' = [a |-> response', b |-> response_b']
    /\ step' = "RENEW"
    /\ UNCHANGED <<injected, expected, results>>

Renew(from, to) ==
    /\ step = from
    /\ FreshModels
    /\ step' = to
    /\ UNCHANGED <<in_step, injection, base, injected, expected, results>>

AccessInjected ==
    /\ step = "INJECT"
    /\ \E t \in InjectFault(BaseTxn, injection) : BothAccess(t)
    /\ injected' = [a |-> response', b |-> response_b']
    /\ step' = "COMPARE"
    /\ UNCHANGED <<injection, base, expected, results>>

\* Scoreboard.compare_response on a write, given the queue of expectations.  Both
\* models answer with the transaction's own id and without an error, so the
\* checks of those two cannot differ.
Mismatch(queue, actual) ==
    \/ queue = <<>>
    \/ \E f \in {"hit", "evicted_dirty", "writeback_addr", "writeback_data"} :
          Head(queue)[f] # actual[f]

Result(side, other) ==
    [injection_type |-> injection, injected_in_model |-> side,
     shown |-> injected[side], against |-> base[other],
     scoreboard_mismatch |-> Mismatch(expected, base[other])]

CompareBoth ==
    /\ step = "COMPARE"
    /\ results' = results \cup {Result("a", "b"), Result("b", "a")}
    /\ step' = "RENEW_BASE"
    /\ UNCHANGED <<lockstepVars, injection, base, injected, expected>>

CampaignInit ==
    /\ LockstepInit
    /\ step = "BASE" /\ injection = None /\ base = None /\ injected = None
    /\ expected = <<>> /\ results = {}

CampaignNext ==
    \/ \E kind \in InjectionType : AccessBase(kind)
    \/ Renew("RENEW", "INJECT")
    \/ AccessInjected
    \/ CompareBoth
    \/ Renew("RENEW_BASE", "BASE")

CampaignSpec == CampaignInit /\ [][CampaignNext]_campaignVars
-----------------------------------------------------------------------------
(***************************************************************************)
(* What the report calls step 6 of its proof: a detection comes from the   *)
(* values of the two responses compared, so where one was recorded the     *)
(* responses differ in some field.                                         *)
(***************************************************************************)
DetectionMeansDifference ==
    \A r \in results : r.scoreboard_mismatch => r.shown # r.against
=============================================================================
