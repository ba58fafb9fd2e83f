------------------------- MODULE OooScoreboardBench -------------------------
(***************************************************************************)
(* OooScoreboard between the reference model, which predicts a response    *)
(* for every request, and a pipelined device.  The device answers every    *)
(* request and emits the writeback event of a dirty eviction, possibly     *)
(* with one of the faults of FaultInjector (faults.py); answers and events *)
(* reach the scoreboard in any order, some lost and some twice.  The test  *)
(* may drain the scoreboard whenever it gives up waiting.                  *)
(***************************************************************************)
EXTENDS OooScoreboard, Bags

CONSTANTS
    ObservedFields,  \* observed_fields of the adapter's responses, or None
    Faults,          \* the faults the device may have
    MaxPushes,       \* bound on push_expected calls that are accepted
    MaxCopies,       \* bound on the copies of an answer or event
    ReuseIds         \* whether an id may be issued again once it is settled

ASSUME FaultsAssumption ==
    Faults \subseteq {"none", "flip_read_bit", "flip_tag_match",
                     "corrupt_writeback_addr", "corrupt_writeback_byte"}

VARIABLES
    issued,        \* id -> the request last accepted under it
    pushes,        \* how many were accepted
    answers,       \* the bag of responses in transit
    events,        \* the bag of writeback events in transit
    seen,          \* the bag of responses compared so far
    seen_events    \* the bag of writeback events compared so far

transit == <<answers, events, seen, seen_events>>
benchVars == <<oooVars, issued, pushes, transit>>

One(m) == SetToBag({m})

\* How many copies of a message have been emitted and not lost.
Copies(m, arriving, compared) ==
    arriving[m] + IF m \in DOMAIN compared THEN compared[m] ELSE 0

Issued == {id \in TxnIds : issued[id] # None}
-----------------------------------------------------------------------------
\* FaultInjector; a bit flip on the one bit of data that is modelled.
Flip(bit) == IF bit = None THEN None ELSE 1 - bit

Inject(r, fault) ==
    CASE fault = "none"                   -> r
      [] fault = "flip_read_bit"          -> [r EXCEPT !.data = Flip(@)]
      [] fault = "flip_tag_match"         -> [r EXCEPT !.hit = ~@]
      [] fault = "corrupt_writeback_addr" -> [r EXCEPT !.writeback_addr = Flip(@)]
      [] fault = "corrupt_writeback_byte" -> [r EXCEPT !.writeback_data = Flip(@)]

Answer(id, r) ==
    [txn_id |-> id, data |-> r.data, hit |-> r.hit, evicted_dirty |-> r.evicted_dirty,
     writeback_addr |-> r.writeback_addr, writeback_data |-> r.writeback_data,
     error |-> r.error, observed_fields |-> ObservedFields]
-----------------------------------------------------------------------------
\* The request is driven only once it was pushed.
Issue(id, x, fault) ==
    LET actual == Inject(x.response, fault)
    IN  /\ pushes < MaxPushes
        /\ ReuseIds \/ id \notin Issued
        /\ AcceptPush(id, x)
        /\ issued' = [issued EXCEPT ![id] = x]
        /\ pushes' = pushes + 1
        /\ answers' = answers (+) One(Answer(id, actual))
        /\ events' = IF actual.evicted_dirty
                     THEN events (+) One(WritebackEvent(id, actual)) ELSE events
        /\ UNCHANGED <<seen, seen_events>>

\* A test that pushes a pending id again is told so, once.
IssueTwice(id) ==
    /\ raised["push_expected"] = 0
    /\ RejectPush(id)
    /\ UNCHANGED <<issued, pushes, transit>>

Deliver(a) ==
    /\ BagIn(a, answers)
    /\ CompareActual(a)
    /\ answers' = answers (-) One(a)
    /\ seen' = seen (+) One(a)
    /\ UNCHANGED <<issued, pushes, events, seen_events>>

DeliverEvent(e) ==
    /\ BagIn(e, events)
    /\ CompareWriteback(e)
    /\ events' = events (-) One(e)
    /\ seen_events' = seen_events (+) One(e)
    /\ UNCHANGED <<issued, pushes, answers, seen>>

Lose ==
    /\ \/ \E a \in DOMAIN answers : answers' = answers (-) One(a) /\ UNCHANGED events
       \/ \E e \in DOMAIN events : events' = events (-) One(e) /\ UNCHANGED answers
    /\ UNCHANGED <<oooVars, issued, pushes, seen, seen_events>>

\* The same answer or event is emitted once more.
Duplicate ==
    /\ \/ \E a \in DOMAIN answers :
            /\ Copies(a, answers, seen) < MaxCopies
            /\ answers' = answers (+) One(a)
            /\ UNCHANGED events
       \/ \E e \in DOMAIN events :
            /\ Copies(e, events, seen_events) < MaxCopies
            /\ events' = events (+) One(e)
            /\ UNCHANGED answers
    /\ UNCHANGED <<oooVars, issued, pushes, seen, seen_events>>

GiveUp ==
    /\ Pending # {}
    /\ DrainPending
    /\ UNCHANGED <<issued, pushes, transit>>

BenchInit ==
    /\ OooInit
    /\ issued = [id \in TxnIds |-> None]
    /\ pushes = 0
    /\ answers = EmptyBag /\ events = EmptyBag
    /\ seen = EmptyBag /\ seen_events = EmptyBag

BenchNext ==
    \/ \E id \in TxnIds, x \in Requests, fault \in Faults : Issue(id, x, fault)
    \/ \E id \in TxnIds : IssueTwice(id)
    \/ \E a \in DOMAIN answers : Deliver(a)
    \/ \E e \in DOMAIN events : DeliverEvent(e)
    \/ Lose
    \/ Duplicate
    \/ GiveUp

BenchSpec == BenchInit /\ [][BenchNext]_benchVars
-----------------------------------------------------------------------------
(***************************************************************************)
(* Every accepted expectation is settled exactly once: it is still pending *)
(* or was matched, refused for a divergence, or listed as timed out, in    *)
(* whatever order answers, duplicates and drains came.                     *)
(***************************************************************************)
Refused == raised["compare_actual"] - orphan

EachExpectationSettledOnce ==
    pushes = Cardinality(Pending) + matched + Refused + timed_out

(***************************************************************************)
(* The same of the writebacks, when an id is issued once: registered with  *)
(* the push, and then expected, matched or refused exactly once, although  *)
(* responses, drains and events are told apart by nothing but the id.      *)
(***************************************************************************)
Evicting == {id \in Issued : RegistersWriteback(issued[id].response)}

EachWritebackSettledOnce ==
    ~ReuseIds => Cardinality(Evicting) = Cardinality(ExpectedWritebacks)
                    + matched_writebacks + mismatched_writebacks - orphan_writebacks

(***************************************************************************)
(* What a test asserts at its end: nothing raised, is_empty,               *)
(* all_writebacks_matched, and nothing drained.                            *)
(***************************************************************************)
TestPasses ==
    /\ \A m \in DOMAIN raised : raised[m] = 0
    /\ Pending = {}
    /\ ExpectedWritebacks = {}
    /\ timed_out = 0

AnswersOf(id) == {a \in DOMAIN seen : a.txn_id = id}
EventsOf(id) == {e \in DOMAIN seen_events : e.txn_id = id}

AnsweredOnce(id) ==
    LET expected == Answer(id, issued[id].response)
    IN  \E a \in DOMAIN seen :
            /\ AnswersOf(id) = {a}
            /\ seen[a] = 1
            /\ issued[id].op = "read" => a.data = expected.data
            /\ \A f \in Observed(expected) : a[f] = expected[f]

WrittenBackOnce(id) ==
    LET expected == WritebackEvent(id, issued[id].response)
    IN  IF RegistersWriteback(issued[id].response)
        THEN EventsOf(id) = {expected} /\ seen_events[expected] = 1
        ELSE EventsOf(id) = {}

(***************************************************************************)
(* A test that passes was shown, for each request, one answer, once, with  *)
(* the predicted data for a read and the predicted value of every visible  *)
(* field; and each predicted dirty victim once, and no other, at the       *)
(* predicted address with the predicted data.                              *)
(***************************************************************************)
PassMeansFaithful ==
    TestPasses /\ ~ReuseIds =>
        \A id \in Issued : AnsweredOnce(id) /\ WrittenBackOnce(id)

(***************************************************************************)
(* A response is refused or orphaned only if something went wrong before   *)
(* the scoreboard: no order of arrival alone, and no lost answer or event, *)
(* makes it raise.                                                         *)
(***************************************************************************)
OrderIsNoFault ==
    raised["compare_actual"] + raised["compare_writeback"] > 0 /\ ~ReuseIds =>
        \/ timed_out > 0
        \/ \E a \in DOMAIN seen :
              seen[a] > 1 \/ a # Answer(a.txn_id, issued[a.txn_id].response)
        \/ \E e \in DOMAIN seen_events :
              \/ seen_events[e] > 1
              \/ e # WritebackEvent(e.txn_id, issued[e.txn_id].response)
=============================================================================
